---- MODULE Spec2Model ----
(***************************************************************************)
(* Dynamic multi-tenant registration: the shared validation engine         *)
(* (validateFields), the tenant connection manager (getTenantConnection,   *)
(* closeTenantConnection, closeAllTenantConnections), the per-tenant model *)
(* cache (getUserModel) and the registration routes (register, list,       *)
(* get-by-id).                                                             *)
(*                                                                         *)
(* JavaScript strings are sequences of one-character strings.  A           *)
(* JavaScript value is a record [t, s, n]: t is the kind ("undef", "null", *)
(* "str", "num", "bool"), s the characters of a string, n the number (or   *)
(* 0/1 for a boolean).                                                     *)
(***************************************************************************)
EXTENDS Integers, Sequences, FiniteSets, TLC

(***************************************************************************)
(* Bounds of the model.                                                    *)
(***************************************************************************)
MaxConns == 2
MaxRecords == 2
MaxClock == 1
NumSlots == 2
MaxCalls == 3

(***************************************************************************)
(* Small helpers.                                                          *)
(***************************************************************************)
Min(a, b) == IF a < b THEN a ELSE b
Range(f) == {f[x] : x \in DOMAIN f}
EmptyMap == [x \in {} |-> <<>>]
\* obj[key] = val, as a JavaScript property assignment (overwrites)
Put(obj, key, val) == [x \in (DOMAIN obj) \cup {key} |-> IF x = key THEN val ELSE obj[x]]

(***************************************************************************)
(* JavaScript values and strings.                                          *)
(***************************************************************************)
NULL == -1
Undefined == [t |-> "undef", s |-> <<>>, n |-> 0]
Str(s) == [t |-> "str", s |-> s, n |-> 0]
Num(n) == [t |-> "num", s |-> <<>>, n |-> n]
Bool(b) == [t |-> "bool", s |-> <<>>, n |-> IF b THEN 1 ELSE 0]
\* a nested object of the JSON body whose own toString property is not a
\* function, such as {"toString": 1}: String(value) throws a TypeError
ObjNoToString == [t |-> "obj", s |-> <<>>, n |-> 1]

Digits == <<"0", "1", "2", "3", "4", "5", "6", "7", "8", "9">>
DigitChars == Range(Digits)
WhiteSpace == {" "}

RECURSIVE NatToString(_)
NatToString(n) == IF n < 10 THEN <<Digits[n + 1]>>
                  ELSE Append(NatToString(n \div 10), Digits[(n % 10) + 1])

\* String(value)
ToStr(v) ==
  CASE v.t = "str" -> v.s
    [] v.t = "num" -> NatToString(v.n)
    [] v.t = "bool" -> IF v.n = 1 THEN <<"t", "r", "u", "e">> ELSE <<"f", "a", "l", "s", "e">>
    [] v.t = "null" -> <<"n", "u", "l", "l">>
    [] v.t = "obj" -> <<"[", "o", "b", "j", "e", "c", "t", " ", "O", "b", "j", "e", "c", "t", "]">>
    [] OTHER -> <<"u", "n", "d", "e", "f", "i", "n", "e", "d">>


\* !value
Falsy(v) ==
  \/ v.t \in {"undef", "null"}
  \/ v.t = "str" /\ v.s = <<>>
  \/ v.t \in {"num", "bool"} /\ v.n = 0

RECURSIVE TrimLeft(_)
TrimLeft(s) == IF s # <<>> /\ Head(s) \in WhiteSpace THEN TrimLeft(Tail(s)) ELSE s
RECURSIVE TrimRight(_)
TrimRight(s) == IF s # <<>> /\ s[Len(s)] \in WhiteSpace
                THEN TrimRight(SubSeq(s, 1, Len(s) - 1)) ELSE s
\* s.trim()
Trim(s) == TrimRight(TrimLeft(s))

AllIn(s, S) == \A i \in 1..Len(s) : s[i] \in S
NoneIn(s, S) == \A i \in 1..Len(s) : s[i] \notin S

(***************************************************************************)
(* Regular expressions.  The admin-supplied patterns of the model are      *)
(* three pattern sources; RegexCompiles is whether new RegExp(p) returns   *)
(* and RegexTest is regex.test(s).                                         *)
(***************************************************************************)
PatDigits == "^[0-9]+$"
PatInvalid == "["
NoPattern == ""

RegexCompiles(p) == p # PatInvalid
RegexTest(p, s) ==
  CASE p = PatDigits -> s # <<>> /\ AllIn(s, DigitChars)
    [] OTHER -> FALSE

\* /^[^\s@]+@[^\s@]+\.[^\s@]+$/.test(s)
EmailRegexTest(s) ==
  \E i \in 1..Len(s) : \E j \in 1..Len(s) :
     /\ s[i] = "@" /\ s[j] = "."
     /\ 1 < i /\ i + 1 < j /\ j < Len(s)
     /\ NoneIn(SubSeq(s, 1, i - 1), WhiteSpace \cup {"@"})
     /\ NoneIn(SubSeq(s, i + 1, j - 1), WhiteSpace \cup {"@"})
     /\ NoneIn(SubSeq(s, j + 1, Len(s)), WhiteSpace \cup {"@"})

\* value.replace(/[\s\-\(\)]/g, '')
CleanPhone(s) == SelectSeq(s, LAMBDA c : c \notin (WhiteSpace \cup {"-", "(", ")"}))
\* /^[0-9]{10,15}$/.test(s)
PhoneRegexTest(s) == Len(s) >= 10 /\ Len(s) <= 15 /\ AllIn(s, DigitChars)

\* !isNaN(s) for a string s: Number(s) trims white space, reads "" as 0, and
\* accepts an optional sign and a decimal literal.  Exponents, hexadecimal
\* literals and Infinity need characters that no value of the model has
\* next to a digit.
UnsignedDecimal(s) ==
  \/ s # <<>> /\ AllIn(s, DigitChars)
  \/ \E k \in 1..Len(s) :
       /\ s[k] = "."
       /\ AllIn(SubSeq(s, 1, k - 1), DigitChars)
       /\ AllIn(SubSeq(s, k + 1, Len(s)), DigitChars)
       /\ Len(s) > 1
NumberParses(s) ==
  LET t == Trim(s)
  IN \/ t = <<>>
     \/ UnsignedDecimal(t)
     \/ t # <<>> /\ t[1] \in {"-", "+"} /\ UnsignedDecimal(Tail(t))

(***************************************************************************)
(* validateFields and its helpers (shared/validation.js).                  *)
(***************************************************************************)
validateEmail(value, errorMessage) == IF ~EmailRegexTest(value) THEN errorMessage ELSE <<>>

validatePhone(value, errorMessage) ==
  IF ~PhoneRegexTest(CleanPhone(value)) THEN errorMessage ELSE <<>>

validateNumber(value, errorMessage) ==
  IF ~NumberParses(value) \/ value = <<>> THEN errorMessage ELSE <<>>

validateSelect(value, options, errorMessage) ==
  IF options = <<>> THEN <<>>
  ELSE IF value \notin Range(options) THEN errorMessage ELSE <<>>

\* a || b on message strings
OrElse(a, b) == IF a # <<>> THEN a ELSE b

\* the error message of the type-specific check, <<>> for null
validateByType(field, value) ==
  CASE field.type = "email" ->
         validateEmail(value, OrElse(field.errorMessage, <<"Please enter a valid email address">>))
    [] field.type = "phone" ->
         validatePhone(value, OrElse(field.errorMessage, <<"Please enter a valid phone number">>))
    [] field.type = "number" ->
         validateNumber(value, OrElse(field.errorMessage, <<"Please enter a valid number">>))
    [] field.type = "select" ->
         validateSelect(value, field.options,
                        OrElse(field.errorMessage, <<"Please select a valid option">>))
    [] OTHER -> <<>>

\* !value || String(value).trim() === ''
IsBlank(value) == Falsy(value) \/ Trim(ToStr(value)) = <<>>

\* n && ...: a length limit that is null or 0 is skipped
Truthy(n) == n # NULL /\ n # 0

\* with the type-specific check placed before the pattern check
validateFieldTypeFirst(field, value) ==
  LET stringValue == ToStr(value)
      v == field.validation
      typeValidationError == validateByType(field, stringValue)
  IN IF ~Falsy(value) /\ value = ObjNoToString
       THEN [kind |-> "throw", msg |-> <<>>]
     ELSE IF v.required /\ IsBlank(value)
       THEN [kind |-> "error", msg |-> OrElse(field.errorMessage, <<field.label, " is required">>)]
     ELSE IF IsBlank(value)
       THEN [kind |-> "skip", msg |-> <<>>]
     ELSE IF Truthy(v.minLength) /\ Len(stringValue) < v.minLength
       THEN [kind |-> "error",
             msg |-> <<field.label, " must be at least ", ToString(v.minLength), " characters">>]
     ELSE IF Truthy(v.maxLength) /\ Len(stringValue) > v.maxLength
       THEN [kind |-> "error",
             msg |-> <<field.label, " must not exceed ", ToString(v.maxLength), " characters">>]
     ELSE IF typeValidationError # <<>>
       THEN [kind |-> "error", msg |-> typeValidationError]
     ELSE IF v.pattern # NoPattern /\ RegexCompiles(v.pattern) /\ ~RegexTest(v.pattern, stringValue)
       THEN [kind |-> "error",
             msg |-> OrElse(field.errorMessage, <<field.label, " format is invalid">>)]
     ELSE [kind |-> "ok", msg |-> <<>>]

\* One iteration of the loop of validateFields: the error message of the
\* first failing rule, or "skip" (continue without a verdict), or "ok", or
\* "throw" when String(value) throws.
validateField(field, value) ==
  LET stringValue == ToStr(value)
      v == field.validation
      typeValidationError == validateByType(field, stringValue)
  IN IF ~Falsy(value) /\ value = ObjNoToString
       THEN [kind |-> "throw", msg |-> <<>>]
     ELSE IF v.required /\ IsBlank(value)
       THEN [kind |-> "error", msg |-> OrElse(field.errorMessage, <<field.label, " is required">>)]
     ELSE IF IsBlank(value)
       THEN [kind |-> "skip", msg |-> <<>>]
     ELSE IF Truthy(v.minLength) /\ Len(stringValue) < v.minLength
       THEN [kind |-> "error",
             msg |-> <<field.label, " must be at least ", ToString(v.minLength), " characters">>]
     ELSE IF Truthy(v.maxLength) /\ Len(stringValue) > v.maxLength
       THEN [kind |-> "error",
             msg |-> <<field.label, " must not exceed ", ToString(v.maxLength), " characters">>]
     ELSE IF v.pattern # NoPattern /\ RegexCompiles(v.pattern) /\ ~RegexTest(v.pattern, stringValue)
       THEN [kind |-> "error",
             msg |-> OrElse(field.errorMessage, <<field.label, " format is invalid">>)]
     ELSE IF typeValidationError # <<>>
       THEN [kind |-> "error", msg |-> typeValidationError]
     ELSE [kind |-> "ok", msg |-> <<>>]

\* submittedData[field.id]
Lookup(submittedData, id) ==
  IF id \in DOMAIN submittedData THEN submittedData[id] ELSE Undefined

\* the call threw instead of returning a result
Thrown == [isValid |-> FALSE, errors |-> EmptyMap, validatedFields |-> EmptyMap, threw |-> TRUE]

RECURSIVE validateLoop(_, _, _, _, _)
validateLoop(schemaFields, submittedData, i, errors, validatedFields) ==
  IF i > Len(schemaFields)
  THEN [isValid |-> (DOMAIN errors = {}), errors |-> errors, validatedFields |-> validatedFields,
        threw |-> FALSE]
  ELSE LET field == schemaFields[i]
           value == Lookup(submittedData, field.id)
           r == validateField(field, value)
       IN IF r.kind = "throw" THEN Thrown
          ELSE validateLoop(schemaFields, submittedData, i + 1,
            IF r.kind = "error" THEN Put(errors, field.id, r.msg) ELSE errors,
            IF r.kind = "ok" THEN Put(validatedFields, field.id, value) ELSE validatedFields)

validateFields(schemaFields, submittedData) ==
  validateLoop(schemaFields, submittedData, 1, EmptyMap, EmptyMap)

(***************************************************************************)
(* The validation written inline in the handler of POST /:tenantId of the  *)
(* single-database registration routes.  It calls value.trim() on the      *)
(* submitted value itself and compiles the pattern outside any try.        *)
(***************************************************************************)
inlineValidateField(field, value) ==
  LET v == field.validation
  IN IF ~Falsy(value) /\ value.t # "str"
       THEN [kind |-> "throw", msg |-> <<>>]
     ELSE IF v.required /\ (Falsy(value) \/ Trim(value.s) = <<>>)
       THEN [kind |-> "error", msg |-> OrElse(field.errorMessage, <<field.label, " is required">>)]
     ELSE IF Falsy(value) \/ Trim(value.s) = <<>>
       THEN [kind |-> "skip", msg |-> <<>>]
     ELSE IF Truthy(v.minLength) /\ Len(value.s) < v.minLength
       THEN [kind |-> "error",
             msg |-> <<field.label, " must be at least ", ToString(v.minLength), " characters">>]
     ELSE IF Truthy(v.maxLength) /\ Len(value.s) > v.maxLength
       THEN [kind |-> "error",
             msg |-> <<field.label, " must not exceed ", ToString(v.maxLength), " characters">>]
     ELSE IF v.pattern # NoPattern /\ ~RegexCompiles(v.pattern)
       THEN [kind |-> "throw", msg |-> <<>>]
     ELSE IF v.pattern # NoPattern /\ ~RegexTest(v.pattern, value.s)
       THEN [kind |-> "error",
             msg |-> OrElse(field.errorMessage, <<field.label, " format is invalid">>)]
     ELSE IF field.type = "email" /\ ~EmailRegexTest(value.s)
       THEN [kind |-> "error",
             msg |-> OrElse(field.errorMessage, <<"Please enter a valid email address">>)]
     ELSE IF field.type = "phone" /\ ~PhoneRegexTest(CleanPhone(value.s))
       THEN [kind |-> "error",
             msg |-> OrElse(field.errorMessage, <<"Please enter a valid phone number">>)]
     ELSE [kind |-> "ok", msg |-> <<>>]

RECURSIVE inlineLoop(_, _, _, _, _)
inlineLoop(schemaFields, submittedData, i, errors, validatedFields) ==
  IF i > Len(schemaFields)
  THEN [isValid |-> (DOMAIN errors = {}), errors |-> errors, validatedFields |-> validatedFields,
        threw |-> FALSE]
  ELSE LET field == schemaFields[i]
           value == Lookup(submittedData, field.id)
           r == inlineValidateField(field, value)
       IN IF r.kind = "throw" THEN Thrown
          ELSE inlineLoop(schemaFields, submittedData, i + 1,
            IF r.kind = "error" THEN Put(errors, field.id, r.msg) ELSE errors,
            IF r.kind = "ok" THEN Put(validatedFields, field.id, value) ELSE validatedFields)

\* steps 2 and 3 of the handler: the errors and the validated fields, or the
\* exception that its catch block answers with 500
inlineValidate(schemaFields, submittedData) ==
  inlineLoop(schemaFields, submittedData, 1, EmptyMap, EmptyMap)

(***************************************************************************)
(* validateForm of the registration form (DynamicForm).  formData holds    *)
(* the strings typed into the inputs.                                      *)
(***************************************************************************)
\* the value is trimmed before any rule reads it
FormValueTrimmed(formData, id) ==
  LET value == Lookup(formData, id) IN IF Falsy(value) THEN <<>> ELSE Trim(value.s)

\* formData[field.id] || ''
FormValue(formData, id) ==
  LET value == Lookup(formData, id) IN IF Falsy(value) THEN <<>> ELSE value.s

\* with a check of the number type as well
validateFormFieldNumbers(field, value) ==
  LET v == field.validation
  IN IF v.required /\ Trim(value) = <<>>
       THEN [kind |-> "error", msg |-> OrElse(field.errorMessage, <<field.label, " is required">>)]
     ELSE IF Trim(value) = <<>>
       THEN [kind |-> "skip", msg |-> <<>>]
     ELSE IF Truthy(v.minLength) /\ Len(value) < v.minLength
       THEN [kind |-> "error",
             msg |-> <<field.label, " must be at least ", ToString(v.minLength), " characters">>]
     ELSE IF Truthy(v.maxLength) /\ Len(value) > v.maxLength
       THEN [kind |-> "error",
             msg |-> <<field.label, " must not exceed ", ToString(v.maxLength), " characters">>]
     ELSE IF field.type = "email" /\ ~EmailRegexTest(value)
       THEN [kind |-> "error",
             msg |-> OrElse(field.errorMessage, <<"Please enter a valid email address">>)]
     ELSE IF field.type = "phone" /\ ~PhoneRegexTest(CleanPhone(value))
       THEN [kind |-> "error",
             msg |-> OrElse(field.errorMessage, <<"Please enter a valid phone number">>)]
     ELSE IF field.type = "number" /\ ~NumberParses(value)
       THEN [kind |-> "error",
             msg |-> OrElse(field.errorMessage, <<"Please enter a valid number">>)]
     ELSE IF v.pattern # NoPattern /\ RegexCompiles(v.pattern) /\ ~RegexTest(v.pattern, value)
       THEN [kind |-> "error",
             msg |-> OrElse(field.errorMessage, <<field.label, " format is invalid">>)]
     ELSE [kind |-> "ok", msg |-> <<>>]

validateFormField(field, value) ==
  LET v == field.validation
  IN IF v.required /\ Trim(value) = <<>>
       THEN [kind |-> "error", msg |-> OrElse(field.errorMessage, <<field.label, " is required">>)]
     ELSE IF Trim(value) = <<>>
       THEN [kind |-> "skip", msg |-> <<>>]
     ELSE IF Truthy(v.minLength) /\ Len(value) < v.minLength
       THEN [kind |-> "error",
             msg |-> <<field.label, " must be at least ", ToString(v.minLength), " characters">>]
     ELSE IF Truthy(v.maxLength) /\ Len(value) > v.maxLength
       THEN [kind |-> "error",
             msg |-> <<field.label, " must not exceed ", ToString(v.maxLength), " characters">>]
     ELSE IF field.type = "email" /\ ~EmailRegexTest(value)
       THEN [kind |-> "error",
             msg |-> OrElse(field.errorMessage, <<"Please enter a valid email address">>)]
     ELSE IF field.type = "phone" /\ ~PhoneRegexTest(CleanPhone(value))
       THEN [kind |-> "error",
             msg |-> OrElse(field.errorMessage, <<"Please enter a valid phone number">>)]
     ELSE IF v.pattern # NoPattern /\ RegexCompiles(v.pattern) /\ ~RegexTest(v.pattern, value)
       THEN [kind |-> "error",
             msg |-> OrElse(field.errorMessage, <<field.label, " format is invalid">>)]
     ELSE [kind |-> "ok", msg |-> <<>>]

RECURSIVE validateFormLoop(_, _, _, _)
validateFormLoop(fields, formData, i, newErrors) ==
  IF i > Len(fields)
  THEN newErrors
  ELSE LET field == fields[i]
           r == validateFormField(field, FormValue(formData, field.id))
       IN validateFormLoop(fields, formData, i + 1,
            IF r.kind = "error" THEN Put(newErrors, field.id, r.msg) ELSE newErrors)

\* the errors set by setErrors and the boolean returned
validateForm(fields, formData) ==
  LET newErrors == validateFormLoop(fields, formData, 1, EmptyMap)
  IN [isValid |-> (DOMAIN newErrors = {}), errors |-> newErrors,
      validatedFields |-> EmptyMap, threw |-> FALSE]

(***************************************************************************)
(* JavaScript numbers of the list route: an integer, NaN or an infinity.   *)
(***************************************************************************)
JsInt(n) == [k |-> "int", n |-> n]
JsNaN == [k |-> "nan", n |-> 0]

\* a query parameter: absent (undefined) or a string
QAbsent == [abs |-> TRUE, s |-> <<>>]
Q(s) == [abs |-> FALSE, s |-> s]

RECURSIVE DigitsValue(_)
DigitsValue(s) ==
  IF s = <<>> THEN 0
  ELSE 10 * DigitsValue(SubSeq(s, 1, Len(s) - 1))
       + (CHOOSE d \in 0..9 : Digits[d + 1] = s[Len(s)])

RECURSIVE LeadingDigits(_)
LeadingDigits(s) ==
  IF s # <<>> /\ Head(s) \in DigitChars THEN <<Head(s)>> \o LeadingDigits(Tail(s)) ELSE <<>>

\* parseInt(s) of a string: white space, an optional sign, the leading digits
ParseIntStr(s) ==
  LET t == TrimLeft(s)
      neg == t # <<>> /\ t[1] = "-"
      body == IF t # <<>> /\ t[1] \in {"-", "+"} THEN Tail(t) ELSE t
      ds == LeadingDigits(body)
  IN IF ds = <<>> THEN JsNaN
     ELSE JsInt(IF neg THEN 0 - DigitsValue(ds) ELSE DigitsValue(ds))

DefaultPage == 1
DefaultLimit == 10

\* const { page = 1, limit = 10 } = req.query; parseInt(page)
ParsePage(q) == IF q.abs THEN JsInt(DefaultPage) ELSE ParseIntStr(q.s)
ParseLimit(q) == IF q.abs THEN JsInt(DefaultLimit) ELSE ParseIntStr(q.s)

\* (parseInt(page) - 1) * parseInt(limit)
SkipOf(page, limit) ==
  LET p == ParsePage(page)
      l == ParseLimit(limit)
  IN IF p.k = "nan" \/ l.k = "nan" THEN JsNaN ELSE JsInt((p.n - 1) * l.n)

\* Math.ceil(totalUsers / parseInt(limit)), totalUsers >= 0
TotalPages(totalUsers, limit) ==
  LET l == ParseLimit(limit)
  IN IF l.k = "nan" THEN JsNaN
     ELSE IF l.n = 0 THEN (IF totalUsers = 0 THEN JsNaN ELSE [k |-> "inf", n |-> 0])
     ELSE IF l.n > 0 THEN JsInt(IF totalUsers % l.n = 0 THEN totalUsers \div l.n
                            ELSE (totalUsers \div l.n) + 1)
     ELSE JsInt(0 - (totalUsers \div (0 - l.n)))

(***************************************************************************)
(* Tenant ids.  Raw ids come from the URL; the normalized id is the key of *)
(* both caches and names the tenant database.                              *)
(***************************************************************************)
UpperLetters == <<"A", "B", "C", "X", "Y", "Z">>
LowerLetters == <<"a", "b", "c", "x", "y", "z">>
AlnumChars == Range(LowerLetters) \cup DigitChars

\* tenantId.toLowerCase(), one character at a time
ToLowerCase(s) ==
  LET ToLowerChar(c) ==
        IF \E i \in 1..Len(UpperLetters) : UpperLetters[i] = c
        THEN LowerLetters[CHOOSE i \in 1..Len(UpperLetters) : UpperLetters[i] = c]
        ELSE c
  IN [i \in 1..Len(s) |-> ToLowerChar(s[i])]

NormalizeNoLower(tenantId) == SelectSeq(tenantId, LAMBDA c : c \in AlnumChars)
\* tenantId.toLowerCase().replace(/[^a-z0-9]/g, '')
Normalize(tenantId) == SelectSeq(ToLowerCase(tenantId), LAMBDA c : c \in AlnumChars)

DbNameShared(normalizedTenantId) == <<"tenant_">>
\* `tenant_${normalizedTenantId}`, the last segment of tenantUri
DbName(normalizedTenantId) == <<"tenant_">> \o normalizedTenantId

IdXyz == <<"x", "y", "z">>
IdXyzAlias == <<"X", "-", "y", "z">>
IdAbc == <<"a", "b", "c">>
RawIds == {IdXyz, IdXyzAlias, IdAbc}
Keys == {Normalize(t) : t \in RawIds}

(***************************************************************************)
(* Field schemas and submissions of the registration requests.             *)
(***************************************************************************)
Field(id, label, type, req, minL, maxL, pat, msg, opts) ==
  [id |-> id, label |-> label, type |-> type, options |-> opts,
   validation |-> [required |-> req, minLength |-> minL, maxLength |-> maxL, pattern |-> pat],
   errorMessage |-> msg]

NameField == Field("name", "Full Name", "text", TRUE, 2, 50, NoPattern,
                   <<"Please enter your full name (2-50 characters)">>, <<>>)
\* the schema seedInitialData stores for tenant xyz
SeedFields ==
  <<NameField,
    Field("email", "Email Address", "email", TRUE, NULL, NULL, NoPattern,
          <<"Please enter a valid email address">>, <<>>)>>

\* no FieldSchema document; a stored fields list has at least one field
NoSchema == <<>>
\* the FieldSchema collection: every tenant id has the seeded fields, or
\* only the tenant ids that seedInitialData creates have them
AllSchemas == [t \in RawIds |-> SeedFields]
SeededSchemas == [t \in RawIds |-> IF t = IdXyzAlias THEN NoSchema ELSE SeedFields]

GoodData == [f \in {"name", "email"} |->
               IF f = "name" THEN Str(<<"J", "o">>) ELSE Str(<<"a", "@", "b", ".", "c">>)]
BadData == [f \in {"name", "email"} |->
               IF f = "name" THEN Str(<<"J", "o">>) ELSE Str(<<"b", "a", "d">>)]
Submissions == {GoodData, BadData}

(***************************************************************************)
(* State.                                                                  *)
(***************************************************************************)
VARIABLES
  tenantConnections,  \* cache: normalized id -> connection (0: no entry)
  tenantUserModels,   \* cache: normalized id -> connection of the cached model (0: no entry)
  conns,              \* the connections created by mongoose.createConnection
  schemas,            \* the FieldSchema collection: tenant id -> fields
  tenants,            \* the Tenant collection: the documents, in insertion order
  records,            \* the registeredusers documents, in insertion order
  clock,              \* the millisecond clock behind createdAt
  reqs,               \* the requests and calls in flight, one per slot
  resp,               \* the response or return of the step just taken, if any
  hist,               \* per tenant id: the last record a 201 reported
  calls,              \* the number of requests and calls started so far
  vFields, vData, vResult, vDone,  \* one call of validateFields
  form                \* the state of the DynamicForm component

vars == <<tenantConnections, tenantUserModels, conns, schemas, tenants, records, clock, reqs,
          resp, hist, calls,
          vFields, vData, vResult, vDone, form>>
\* the variables outside the server: the single validation call and the form
valVars == <<vFields, vData, vResult, vDone, form>>

Slots == 1..NumSlots
ConnIds == 1..MaxConns

NumConns == Cardinality({c \in ConnIds : conns[c].state # "unused"})
\* connection.readyState === 1
Live(c) == conns[c].state = "open"

NoResult == [isValid |-> TRUE, errors |-> EmptyMap, validatedFields |-> EmptyMap,
             threw |-> FALSE]

IdleReq == [kind |-> "none", pc |-> "idle", t |-> <<>>, c |-> 0,
            page |-> QAbsent, limit |-> QAbsent, data |-> EmptyMap, uid |-> 0,
            stamp |-> 0, users |-> <<>>, total |-> 0, status |-> "none",
            errors |-> EmptyMap, validated |-> EmptyMap,
            snap |-> {}, pend |-> {}, failed |-> {}, expect |-> 0, alone |-> FALSE,
            fields |-> <<>>, message |-> "", error |-> ""]
NoResp == IdleReq

Free(r) == reqs[r].pc = "idle"
\* a new request or call is admitted
Admit == calls < MaxCalls /\ calls' = calls + 1

\* the slot goes on as q
Goes(r, q) == reqs' = [reqs EXCEPT ![r] = q] /\ resp' = NoResp
\* the request of the slot ends with response q
Ends(r, q) == reqs' = [reqs EXCEPT ![r] = IdleReq] /\ resp' = [q EXCEPT !.pc = "done"]

\* the DynamicForm as it mounts: the useState initial values; inFlight tells
\* that the axios.post of handleSubmit has not settled yet
MountedForm == [formData |-> EmptyMap, errors |-> EmptyMap, submitting |-> FALSE,
                submitted |-> FALSE, submitError |-> "", inFlight |-> FALSE]

\* the process has started: empty caches, no tenant connection, no document
Started ==
  /\ tenantConnections = [k \in Keys |-> 0]
  /\ tenantUserModels = [k \in Keys |-> 0]
  /\ conns = [c \in ConnIds |-> [key |-> <<>>, db |-> <<>>, raw |-> <<>>, state |-> "unused"]]
  /\ records = <<>>
  /\ clock = 0
  /\ reqs = [r \in Slots |-> IdleReq]
  /\ resp = NoResp
  /\ hist = [t \in RawIds |-> [last |-> 0, quiet |-> FALSE]]
  /\ calls = 0
  /\ form = MountedForm
  /\ tenants = <<[tenantId |-> IdXyz, name |-> "Project A"],
                [tenantId |-> IdAbc, name |-> "Project B"]>>

NoValidation == vFields = <<>> /\ vData = EmptyMap /\ vResult = NoResult /\ vDone = FALSE

Init == Started /\ schemas = AllSchemas /\ NoValidation
InitList == Started /\ schemas \in {AllSchemas, SeededSchemas} /\ NoValidation

(***************************************************************************)
(* getTenantConnection and getUserModel, up to their first suspension.     *)
(* q is the caller's slot record; the slot comes back at pc "gotModel"     *)
(* (model cache hit), "gotConn" (connection cache hit) or "awaitOpen" (a   *)
(* new connection is being opened).                                        *)
(***************************************************************************)
CallGetTenantConnection(r, q) ==
  LET normalizedTenantId == Normalize(q.t)
      conn == tenantConnections[normalizedTenantId]
  IN IF conn # 0 /\ Live(conn)
     THEN /\ reqs' = [reqs EXCEPT ![r] = [q EXCEPT !.pc = "gotConn", !.c = conn]]
          /\ UNCHANGED conns
     ELSE /\ NumConns < MaxConns
          /\ conns' = [conns EXCEPT ![NumConns + 1] = 
                          [key |-> normalizedTenantId, db |-> DbName(normalizedTenantId),
                           raw |-> q.t, state |-> "connecting"]]
          /\ reqs' = [reqs EXCEPT ![r] = [q EXCEPT !.pc = "awaitOpen", !.c = NumConns + 1]]

CallGetUserModel(r, q) ==
  LET normalizedTenantId == Normalize(q.t)
  IN IF tenantUserModels[normalizedTenantId] # 0
     THEN /\ reqs' = [reqs EXCEPT ![r] = [q EXCEPT !.pc = "gotModel",
                                                   !.c = tenantUserModels[normalizedTenantId]]]
          /\ UNCHANGED conns
     ELSE CallGetTenantConnection(r, q)

\* a direct call of getTenantConnection(tenantId)
ConnStart(r, t) ==
  /\ Free(r)
  /\ CallGetTenantConnection(r, [IdleReq EXCEPT !.kind = "conn", !.t = t])
  /\ resp' = NoResp
  /\ UNCHANGED <<tenantConnections, tenantUserModels, schemas, records, clock, hist>>
  /\ UNCHANGED <<valVars, tenants>>
  /\ Admit

\* a direct call of getUserModel(tenantId)
ModelStart(r, t) ==
  /\ Free(r)
  /\ CallGetUserModel(r, [IdleReq EXCEPT !.kind = "model", !.t = t])
  /\ resp' = NoResp
  /\ UNCHANGED <<tenantConnections, tenantUserModels, schemas, records, clock, hist>>
  /\ UNCHANGED <<valVars, tenants>>
  /\ Admit

\* the connection emits 'open': the awaiting call caches it and returns it
OpenOk(r) ==
  /\ reqs[r].pc = "awaitOpen"
  /\ conns[reqs[r].c].state = "connecting"
  /\ conns' = [conns EXCEPT ![reqs[r].c].state = "open"]
  /\ tenantConnections' = [tenantConnections EXCEPT ![Normalize(reqs[r].t)] = reqs[r].c]
  /\ Goes(r, [reqs[r] EXCEPT !.pc = "gotConn"])
  /\ UNCHANGED <<tenantUserModels, schemas, records, clock, hist>>
  /\ UNCHANGED <<valVars, tenants, calls>>

\* the status a failed getUserModel / getTenantConnection leaves: the route
\* handlers answer 500, a direct call throws, and the promise of the
\* get-by-id route (which answered already) is dropped
FailStatus(q) ==
  CASE q.kind \in {"register", "list"} -> "500"
    [] q.kind \in {"conn", "model"} -> "threw"
    [] OTHER -> "dropped"

OpenFailCaching(r) ==
  /\ reqs[r].pc = "awaitOpen"
  /\ conns[reqs[r].c].state = "connecting"
  /\ conns' = [conns EXCEPT ![reqs[r].c].state = "failed"]
  /\ tenantConnections' = [tenantConnections EXCEPT ![Normalize(reqs[r].t)] = reqs[r].c]
  /\ Ends(r, [reqs[r] EXCEPT !.status = FailStatus(reqs[r])])
  /\ UNCHANGED <<tenantUserModels, schemas, records, clock, hist>>
  /\ UNCHANGED <<valVars, tenants, calls>>

\* the connection emits 'error': the call throws, nothing is cached
OpenFail(r) ==
  /\ reqs[r].pc = "awaitOpen"
  /\ conns[reqs[r].c].state = "connecting"
  /\ conns' = [conns EXCEPT ![reqs[r].c].state = "failed"]
  /\ Ends(r, [reqs[r] EXCEPT !.status = FailStatus(reqs[r])])
  /\ UNCHANGED <<tenantConnections, tenantUserModels, schemas, records, clock, hist>>
  /\ UNCHANGED <<valVars, tenants, calls>>

\* getTenantConnection has returned.  A direct call is over; getUserModel
\* caches the model of the connection and returns it; a route handler goes
\* on to its next storage call (save() stamps createdAt).
Continue(r) ==
  /\ reqs[r].pc \in {"gotConn", "gotModel"}
  /\ tenantUserModels' =
       IF reqs[r].pc = "gotConn" /\ reqs[r].kind # "conn"
       THEN [tenantUserModels EXCEPT ![Normalize(reqs[r].t)] = reqs[r].c]
       ELSE tenantUserModels
  /\ CASE reqs[r].kind \in {"conn", "model"} -> Ends(r, [reqs[r] EXCEPT !.status = "returned"])
       [] reqs[r].kind = "register" -> Goes(r, [reqs[r] EXCEPT !.pc = "saving", !.stamp = clock])
       [] reqs[r].kind = "list" -> Goes(r, [reqs[r] EXCEPT !.pc = "finding"])
       [] OTHER -> Ends(r, [reqs[r] EXCEPT !.status = "dropped"])
  /\ UNCHANGED <<tenantConnections, conns, schemas, records, clock, hist>>
  /\ UNCHANGED <<valVars, tenants, calls>>

(***************************************************************************)
(* POST /:tenantId                                                         *)
(***************************************************************************)
RegistersInFlight == {r \in Slots : reqs[r].kind = "register"}

RegStart(r, t, submittedData) ==
  /\ Free(r)
  /\ Len(records) + Cardinality(RegistersInFlight) < MaxRecords
  /\ reqs' = [o \in Slots |->
        IF o = r
        THEN [IdleReq EXCEPT !.kind = "register", !.pc = "findSchema", !.t = t,
                !.data = submittedData,
                !.alone = \A i \in RegistersInFlight : reqs[i].t # t]
        ELSE IF reqs[o].kind = "register" /\ reqs[o].t = t
        THEN [reqs[o] EXCEPT !.alone = FALSE]
        ELSE reqs[o]]
  /\ resp' = NoResp
  /\ hist' = [hist EXCEPT ![t].quiet = FALSE]
  /\ UNCHANGED <<tenantConnections, tenantUserModels, conns, schemas, records, clock>>
  /\ UNCHANGED <<valVars, tenants>>
  /\ Admit

\* FieldSchema.findOne has answered: 404, 400 or on to getUserModel
RegValidate(r) ==
  /\ reqs[r].kind = "register" /\ reqs[r].pc = "findSchema"
  /\ LET schema == schemas[reqs[r].t]
         validation == validateFields(schema, reqs[r].data)
     IN IF schema = NoSchema
        THEN /\ Ends(r, [reqs[r] EXCEPT !.status = "404"])
             /\ UNCHANGED conns
        ELSE IF validation.threw
        THEN /\ Ends(r, [reqs[r] EXCEPT !.status = "500"])
             /\ UNCHANGED conns
        ELSE IF ~validation.isValid
        THEN /\ Ends(r, [reqs[r] EXCEPT !.status = "400", !.errors = validation.errors])
             /\ UNCHANGED conns
        ELSE /\ CallGetUserModel(r, [reqs[r] EXCEPT !.validated = validation.validatedFields])
             /\ resp' = NoResp
  /\ UNCHANGED <<tenantConnections, tenantUserModels, schemas, records, clock, hist>>
  /\ UNCHANGED <<valVars, tenants, calls>>

\* the document is built from the request body, not from validatedFields
RegSaveSubmitted(r) ==
  /\ reqs[r].kind = "register" /\ reqs[r].pc = "saving"
  /\ IF Live(reqs[r].c)
     THEN /\ records' = Append(records,
                [db |-> conns[reqs[r].c].db, tenantId |-> reqs[r].t,
                 createdAt |-> reqs[r].stamp, fields |-> reqs[r].data])
          /\ Ends(r, [reqs[r] EXCEPT !.status = "201", !.uid = Len(records) + 1])
          /\ hist' = [hist EXCEPT ![reqs[r].t] =
                        [last |-> Len(records) + 1,
                         quiet |-> reqs[r].alone]]
     ELSE /\ Ends(r, [reqs[r] EXCEPT !.status = "500"])
          /\ UNCHANGED <<records, hist>>
  /\ UNCHANGED <<tenantConnections, tenantUserModels, conns, schemas, clock>>
  /\ UNCHANGED <<valVars, tenants, calls>>

\* newUser.save() has answered
RegSave(r) ==
  /\ reqs[r].kind = "register" /\ reqs[r].pc = "saving"
  /\ IF Live(reqs[r].c)
     THEN /\ records' = Append(records,
                [db |-> conns[reqs[r].c].db, tenantId |-> reqs[r].t,
                 createdAt |-> reqs[r].stamp, fields |-> reqs[r].validated])
          /\ Ends(r, [reqs[r] EXCEPT !.status = "201", !.uid = Len(records) + 1])
          /\ hist' = [hist EXCEPT ![reqs[r].t] =
                        [last |-> Len(records) + 1,
                         quiet |-> reqs[r].alone]]
     ELSE /\ Ends(r, [reqs[r] EXCEPT !.status = "500"])
          /\ UNCHANGED <<records, hist>>
  /\ UNCHANGED <<tenantConnections, tenantUserModels, conns, schemas, clock>>
  /\ UNCHANGED <<valVars, tenants, calls>>

(***************************************************************************)
(* GET /:tenantId/users                                                    *)
(***************************************************************************)
\* the documents find({ tenantId }) matches in database db
TenantRecordIds(db, t) ==
  {i \in 1..Len(records) : records[i].db = db /\ records[i].tenantId = t}

Orders(S) == {s \in [1..Cardinality(S) -> S] : \A i, j \in DOMAIN s : i # j => s[i] # s[j]}

SortedOrdersAscending(S) ==
  {s \in Orders(S) : \A i, j \in DOMAIN s :
      i < j => records[s[i]].createdAt <= records[s[j]].createdAt}

\* sort({ createdAt: -1 }): the store may return documents of equal
\* createdAt in any order
SortedOrders(S) ==
  {s \in Orders(S) : \A i, j \in DOMAIN s :
      i < j => records[s[i]].createdAt >= records[s[j]].createdAt}

\* the page that follows: skip is taken as page * limit
PageOfNextPage(order, sk, lm) ==
  SubSeq(order, sk + lm + 1, IF lm = 0 THEN Len(order) ELSE Min(sk + lm + lm, Len(order)))

\* skip(sk).limit(lm) on the sorted documents; limit 0 is no limit
PageOf(order, sk, lm) ==
  SubSeq(order, sk + 1, IF lm = 0 THEN Len(order) ELSE Min(sk + lm, Len(order)))

ListStart(r, t, page, limit) ==
  /\ Free(r)
  /\ CallGetUserModel(r, [IdleReq EXCEPT !.kind = "list", !.t = t, !.page = page,
                            !.limit = limit,
                            !.expect = IF hist[t].quiet THEN hist[t].last ELSE 0])
  /\ resp' = NoResp
  /\ UNCHANGED <<tenantConnections, tenantUserModels, schemas, records, clock, hist>>
  /\ UNCHANGED <<valVars, tenants>>
  /\ Admit

\* find().skip().limit().sort() has answered.  A negative skip is an error
\* of the store; a NaN skip or limit is, depending on the store, an error
\* or read as 0; a negative limit is read as its absolute value.
DbFind(r) ==
  /\ reqs[r].kind = "list" /\ reqs[r].pc = "finding"
  /\ LET skip == SkipOf(reqs[r].page, reqs[r].limit)
         lim == ParseLimit(reqs[r].limit)
         ids == TenantRecordIds(conns[reqs[r].c].db, reqs[r].t)
     IN \E lenient \in BOOLEAN : \E order \in SortedOrders(ids) :
          IF \/ ~Live(reqs[r].c)
             \/ skip.k = "int" /\ skip.n < 0
             \/ (skip.k = "nan" \/ lim.k = "nan") /\ ~lenient
          THEN Ends(r, [reqs[r] EXCEPT !.status = "500"])
          ELSE Goes(r, [reqs[r] EXCEPT !.pc = "counting",
                 !.users = PageOf(order, IF skip.k = "nan" THEN 0 ELSE skip.n,
                                  IF lim.k = "nan" THEN 0 ELSE (IF lim.n < 0 THEN 0 - lim.n ELSE lim.n))])
  /\ UNCHANGED <<tenantConnections, tenantUserModels, conns, schemas, records, clock, hist>>
  /\ UNCHANGED <<valVars, tenants, calls>>

\* countDocuments({ tenantId }) has answered
DbCount(r) ==
  /\ reqs[r].kind = "list" /\ reqs[r].pc = "counting"
  /\ IF ~Live(reqs[r].c)
     THEN Ends(r, [reqs[r] EXCEPT !.status = "500"])
     ELSE Ends(r, [reqs[r] EXCEPT !.status = "200",
            !.total = Cardinality(TenantRecordIds(conns[reqs[r].c].db, reqs[r].t))])
  /\ UNCHANGED <<tenantConnections, tenantUserModels, conns, schemas, records, clock, hist>>
  /\ UNCHANGED <<valVars, tenants, calls>>

\* the pagination object of the 200 response
Pagination(q) ==
  [currentPage |-> ParsePage(q.page), totalPages |-> TotalPages(q.total, q.limit),
   totalUsers |-> q.total, limit |-> ParseLimit(q.limit)]

(***************************************************************************)
(* GET /:tenantId/users/:userId.  getUserModel(tenantId) is called without *)
(* await: UserModel is a promise, UserModel.findById is not a function,    *)
(* the handler answers 500 and the call of getUserModel goes on alone.     *)
(***************************************************************************)
GetByIdStart(r, t, userId) ==
  /\ Free(r)
  /\ CallGetUserModel(r, [IdleReq EXCEPT !.kind = "getById", !.t = t, !.uid = userId])
  /\ resp' = [IdleReq EXCEPT !.kind = "getById", !.t = t, !.uid = userId,
                             !.pc = "done", !.status = "500"]
  /\ UNCHANGED <<tenantConnections, tenantUserModels, schemas, records, clock, hist>>
  /\ UNCHANGED <<valVars, tenants>>
  /\ Admit

(***************************************************************************)
(* closeTenantConnection and closeAllTenantConnections                     *)
(***************************************************************************)
CloseTenantStart(r, t) ==
  /\ Free(r)
  /\ LET conn == tenantConnections[Normalize(t)]
         q == [IdleReq EXCEPT !.kind = "closeTenant", !.t = t]
     IN IF conn # 0
        THEN /\ conns' = [conns EXCEPT ![conn].state = "closing"]
             /\ Goes(r, [q EXCEPT !.pc = "awaitClose", !.c = conn])
        ELSE /\ Ends(r, [q EXCEPT !.status = "returned"])
             /\ UNCHANGED conns
  /\ UNCHANGED <<tenantConnections, tenantUserModels, schemas, records, clock, hist>>
  /\ UNCHANGED <<valVars, tenants>>
  /\ Admit

\* close() has settled: on success the entry of the key is deleted, on
\* failure the call throws
CloseTenantSettle(r, ok) ==
  /\ reqs[r].kind = "closeTenant" /\ reqs[r].pc = "awaitClose"
  /\ IF ok
     THEN /\ conns' = [conns EXCEPT ![reqs[r].c].state = "closed"]
          /\ tenantConnections' = [tenantConnections EXCEPT ![Normalize(reqs[r].t)] = 0]
          /\ Ends(r, [reqs[r] EXCEPT !.status = "returned"])
     ELSE /\ conns' = [conns EXCEPT ![reqs[r].c].state = "closeFailed"]
          /\ Ends(r, [reqs[r] EXCEPT !.status = "threw"])
          /\ UNCHANGED tenantConnections
  /\ UNCHANGED <<tenantUserModels, schemas, records, clock, hist>>
  /\ UNCHANGED <<valVars, tenants, calls>>

CachedConns == {tenantConnections[k] : k \in Keys} \ {0}

\* Object.keys(tenantConnections).map(async ...) calls close() on every
\* cached connection before the first await
CloseAllStart(r) ==
  /\ Free(r)
  /\ conns' = [c \in ConnIds |->
                 IF c \in CachedConns THEN [conns[c] EXCEPT !.state = "closing"] ELSE conns[c]]
  /\ Goes(r, [IdleReq EXCEPT !.kind = "closeAll", !.pc = "closingAll",
                             !.snap = CachedConns, !.pend = CachedConns])
  /\ UNCHANGED <<tenantConnections, tenantUserModels, schemas, records, clock, hist>>
  /\ UNCHANGED <<valVars, tenants>>
  /\ Admit

\* one close() has settled; a failure is logged inside its own try/catch
CloseAllSettle(r, c, ok) ==
  /\ reqs[r].kind = "closeAll" /\ reqs[r].pc = "closingAll"
  /\ c \in reqs[r].pend
  /\ conns' = [conns EXCEPT ![c].state = IF ok THEN "closed" ELSE "closeFailed"]
  /\ Goes(r, [reqs[r] EXCEPT !.pend = @ \ {c}, !.failed = IF ok THEN @ ELSE @ \cup {c}])
  /\ UNCHANGED <<tenantConnections, tenantUserModels, schemas, records, clock, hist>>
  /\ UNCHANGED <<valVars, tenants, calls>>

CloseAllFinishPropagating(r) ==
  /\ reqs[r].kind = "closeAll" /\ reqs[r].pc = "closingAll"
  /\ reqs[r].pend = {}
  /\ IF reqs[r].failed = {}
     THEN /\ tenantConnections' = [k \in Keys |-> 0]
          /\ Ends(r, [reqs[r] EXCEPT !.status = "returned"])
     ELSE /\ Ends(r, [reqs[r] EXCEPT !.status = "threw"])
          /\ UNCHANGED tenantConnections
  /\ UNCHANGED <<tenantUserModels, conns, schemas, records, clock, hist>>
  /\ UNCHANGED <<valVars, tenants, calls>>

\* Promise.all has resolved: the cache is cleared and the call returns
CloseAllFinish(r) ==
  /\ reqs[r].kind = "closeAll" /\ reqs[r].pc = "closingAll"
  /\ reqs[r].pend = {}
  /\ tenantConnections' = [k \in Keys |-> 0]
  /\ Ends(r, [reqs[r] EXCEPT !.status = "returned"])
  /\ UNCHANGED <<tenantUserModels, conns, schemas, records, clock, hist>>
  /\ UNCHANGED <<valVars, tenants, calls>>

(***************************************************************************)
(* Environment: a connection drops, the clock advances.                    *)
(***************************************************************************)
Disconnect(c) ==
  /\ conns[c].state = "open"
  /\ conns' = [conns EXCEPT ![c].state = "disconnected"]
  /\ resp' = NoResp
  /\ UNCHANGED <<tenantConnections, tenantUserModels, schemas, records, clock, reqs, hist>>
  /\ UNCHANGED <<valVars, tenants, calls>>

Tick ==
  /\ clock < MaxClock
  /\ clock' = clock + 1
  /\ resp' = NoResp
  /\ UNCHANGED <<tenantConnections, tenantUserModels, conns, schemas, records, reqs, hist>>
  /\ UNCHANGED <<valVars, tenants, calls>>

(***************************************************************************)
(* The admin routes and the schema fetch of the form.  A body carries      *)
(* `fields` as an array (isArray) or as something else or not at all.      *)
(***************************************************************************)
AdminAnswer(kind, t, fields, status, message) ==
  [IdleReq EXCEPT !.kind = kind, !.pc = "done", !.t = t, !.fields = fields,
                  !.status = status, !.message = message]

\* POST /api/admin/schemas: the check of the body
SchemaCreateStart(r, t, fields, isArray) ==
  /\ Free(r)
  /\ IF t = <<>> \/ ~isArray
     THEN /\ reqs' = reqs
          /\ resp' = AdminAnswer("createSchema", t, fields, "400",
                                  "tenantId and fields array are required")
     ELSE Goes(r, [IdleReq EXCEPT !.kind = "createSchema", !.pc = "findExisting",
                                  !.t = t, !.fields = fields])
  /\ UNCHANGED <<tenantConnections, tenantUserModels, conns, schemas, records, clock, hist>>
  /\ UNCHANGED <<valVars, tenants>>
  /\ Admit

\* the handler goes on to save whatever findOne answers
SchemaCreateFindBlind(r) ==
  /\ reqs[r].kind = "createSchema" /\ reqs[r].pc = "findExisting"
  /\ Goes(r, [reqs[r] EXCEPT !.pc = "saveSchema"])
  /\ UNCHANGED <<tenantConnections, tenantUserModels, conns, schemas, records, clock, hist>>
  /\ UNCHANGED <<valVars, tenants, calls>>

\* FieldSchema.findOne({ tenantId }) has answered
SchemaCreateFind(r) ==
  /\ reqs[r].kind = "createSchema" /\ reqs[r].pc = "findExisting"
  /\ IF schemas[reqs[r].t] # NoSchema
     THEN Ends(r, [reqs[r] EXCEPT !.status = "400", !.message = "Schema already exists"])
     ELSE Goes(r, [reqs[r] EXCEPT !.pc = "saveSchema"])
  /\ UNCHANGED <<tenantConnections, tenantUserModels, conns, schemas, records, clock, hist>>
  /\ UNCHANGED <<valVars, tenants, calls>>

\* newSchema.save() has answered; tenantId has a unique index
SchemaCreateSave(r) ==
  /\ reqs[r].kind = "createSchema" /\ reqs[r].pc = "saveSchema"
  /\ IF schemas[reqs[r].t] # NoSchema
     THEN /\ Ends(r, [reqs[r] EXCEPT !.status = "500", !.message = "Error creating schema",
                                     !.error = "E11000 duplicate key"])
          /\ UNCHANGED schemas
     ELSE /\ schemas' = [schemas EXCEPT ![reqs[r].t] = reqs[r].fields]
          /\ Ends(r, [reqs[r] EXCEPT !.status = "201",
                                     !.message = "Field schema created successfully"])
  /\ UNCHANGED <<tenantConnections, tenantUserModels, conns, records, clock, hist>>
  /\ UNCHANGED <<valVars, tenants, calls>>

\* the update creates the schema when there is none
SchemaUpdateUpserting(t, fields, isArray) ==
  /\ reqs' = reqs
  /\ IF ~isArray
     THEN /\ resp' = AdminAnswer("updateSchema", t, fields, "400", "fields array is required")
          /\ UNCHANGED schemas
     ELSE /\ schemas' = [schemas EXCEPT ![t] = fields]
          /\ resp' = AdminAnswer("updateSchema", t, fields, "200",
                                  "Field schema updated successfully")
  /\ UNCHANGED <<tenantConnections, tenantUserModels, conns, records, clock, hist>>
  /\ UNCHANGED <<valVars, tenants>>
  /\ Admit

\* PUT /api/admin/schemas/:tenantId: one findOneAndUpdate({ tenantId }, { fields })
SchemaUpdate(t, fields, isArray) ==
  /\ reqs' = reqs
  /\ IF ~isArray
     THEN /\ resp' = AdminAnswer("updateSchema", t, fields, "400", "fields array is required")
          /\ UNCHANGED schemas
     ELSE IF schemas[t] = NoSchema
     THEN /\ resp' = AdminAnswer("updateSchema", t, fields, "404", "Schema not found")
          /\ UNCHANGED schemas
     ELSE /\ schemas' = [schemas EXCEPT ![t] = fields]
          /\ resp' = AdminAnswer("updateSchema", t, fields, "200",
                                  "Field schema updated successfully")
  /\ UNCHANGED <<tenantConnections, tenantUserModels, conns, records, clock, hist>>
  /\ UNCHANGED <<valVars, tenants>>
  /\ Admit

\* GET /api/fields/:tenantId: the schema the form renders
FetchSchema(t) ==
  /\ reqs' = reqs
  /\ resp' = IF schemas[t] = NoSchema
             THEN AdminAnswer("fetchSchema", t, <<>>, "404", "No field schema found")
             ELSE AdminAnswer("fetchSchema", t, schemas[t], "200", "")
  /\ UNCHANGED <<tenantConnections, tenantUserModels, conns, schemas, records, clock, hist>>
  /\ UNCHANGED <<valVars, tenants>>
  /\ Admit

TenantIds == {tenants[i].tenantId : i \in 1..Len(tenants)}

\* POST /api/admin/tenants: one newTenant.save(); tenantId has a unique
\* index; available tells whether the store answers at all
TenantCreate(t, name, available) ==
  /\ reqs' = reqs
  /\ IF t = <<>> \/ name = ""
     THEN /\ resp' = AdminAnswer("createTenant", t, <<>>, "400", "tenantId and name are required")
          /\ UNCHANGED tenants
     ELSE IF ~available
     THEN /\ resp' = [AdminAnswer("createTenant", t, <<>>, "500", "Error creating tenant")
                        EXCEPT !.error = "server selection timed out"]
          /\ UNCHANGED tenants
     ELSE IF t \in TenantIds
     THEN /\ resp' = [AdminAnswer("createTenant", t, <<>>, "500", "Error creating tenant")
                        EXCEPT !.error = "E11000 duplicate key"]
          /\ UNCHANGED tenants
     ELSE /\ tenants' = Append(tenants, [tenantId |-> t, name |-> name])
          /\ resp' = AdminAnswer("createTenant", t, <<>>, "201", "Tenant created successfully")
  /\ UNCHANGED <<tenantConnections, tenantUserModels, conns, schemas, records, clock, hist>>
  /\ UNCHANGED valVars
  /\ Admit

(***************************************************************************)
(* Specifications.                                                         *)
(***************************************************************************)
\* the connection manager under concurrent callers: direct calls of
\* getTenantConnection and getUserModel, closes and dropped connections
Next ==
  \/ \E r \in Slots, t \in RawIds : ConnStart(r, t)
  \/ \E r \in Slots, t \in RawIds : ModelStart(r, t)
  \/ \E r \in Slots : OpenOk(r)
  \/ \E r \in Slots : OpenFail(r)
  \/ \E r \in Slots : Continue(r)
  \/ \E r \in Slots, t \in RawIds : CloseTenantStart(r, t)
  \/ \E r \in Slots, ok \in BOOLEAN : CloseTenantSettle(r, ok)
  \/ \E r \in Slots : CloseAllStart(r)
  \/ \E r \in Slots, c \in ConnIds, ok \in BOOLEAN : CloseAllSettle(r, c, ok)
  \/ \E r \in Slots : CloseAllFinish(r)
  \/ \E c \in ConnIds : Disconnect(c)

Spec == Init /\ [][Next]_vars

\* no serverSelectionTimeoutMS: nothing makes a pending open end
NoConnectionTimeout == TRUE

\* serverSelectionTimeoutMS: 5000: an open that stays pending is ended by the
\* error event
ConnectionTimeout == \A r \in Slots : WF_vars(OpenFail(r))

\* a caller whose awaited promise has settled is resumed
CallersResume == \A r \in Slots : WF_vars(Continue(r))

\* the calls of getTenantConnection and getUserModel, without the closes
NextCalls ==
  \/ \E r \in Slots, t \in RawIds : ConnStart(r, t)
  \/ \E r \in Slots, t \in RawIds : ModelStart(r, t)
  \/ \E r \in Slots : OpenOk(r)
  \/ \E r \in Slots : OpenFail(r)
  \/ \E r \in Slots : Continue(r)
  \/ \E c \in ConnIds : Disconnect(c)

SpecTimeout == Init /\ [][NextCalls]_vars /\ ConnectionTimeout /\ CallersResume

\* the registration routes under concurrent requests
\* the tenants of the seed data
SeedIds == {IdXyz, IdAbc}

NextReg ==
  \/ \E r \in Slots, t \in SeedIds : RegStart(r, t, GoodData)
  \/ \E r \in Slots : RegValidate(r)
  \/ \E r \in Slots : RegSave(r)
  \/ \E r \in Slots, t \in SeedIds : ListStart(r, t, Q(<<"1">>), Q(<<"1", "0">>))
  \/ \E r \in Slots : DbFind(r)
  \/ \E r \in Slots : DbCount(r)
  \/ \E r \in Slots : GetByIdStart(r, IdXyz, 1)
  \/ \E r \in Slots : OpenOk(r)
  \/ \E r \in Slots : Continue(r)
  \/ Tick

SpecReg == Init /\ [][NextReg]_vars

\* one request at a time over connections that open and stay open: the
\* answers of the register and list routes for every query string
NextList ==
  \/ \E t \in RawIds, d \in Submissions : RegStart(1, t, d)
  \/ RegValidate(1)
  \/ RegSave(1)
  \/ \E t \in RawIds,
        p \in {QAbsent, Q(<<"1">>), Q(<<"2">>), Q(<<"0">>), Q(<<"x">>)},
        l \in {QAbsent, Q(<<"1">>), Q(<<"2">>), Q(<<"0">>), Q(<<"-", "1">>)} :
       ListStart(1, t, p, l)
  \/ DbFind(1)
  \/ DbCount(1)
  \/ OpenOk(1)
  \/ Continue(1)
  \/ Tick

SpecList == InitList /\ [][NextList]_vars

\* the fields lists of the admin requests: one field, and the same id twice
NameOnly == <<NameField>>
NameTwice == <<NameField, [NameField EXCEPT !.label = "Other Name"]>>
\* the bodies of the schema requests: a fields array, or none
SchemaBodies ==
  {<<f, TRUE>> : f \in {NameOnly, NameTwice}} \cup {<<NoSchema, FALSE>>}
\* the tenant ids of the admin requests, the empty one among them
AdminIds == RawIds \cup {<<>>}

InitAdmin == Started /\ schemas = SeededSchemas /\ NoValidation

\* the schema registry under concurrent admin requests, the schema fetch and
\* the registrations that read the schema
NextAdmin ==
  \/ \E r \in Slots, t \in AdminIds, b \in SchemaBodies : SchemaCreateStart(r, t, b[1], b[2])
  \/ \E r \in Slots : SchemaCreateFind(r)
  \/ \E r \in Slots : SchemaCreateSave(r)
  \/ \E t \in RawIds, b \in SchemaBodies : SchemaUpdate(t, b[1], b[2])
  \/ \E t \in RawIds : FetchSchema(t)
  \/ \E t \in AdminIds \ {IdAbc}, n \in {"", "Project"}, a \in BOOLEAN : TenantCreate(t, n, a)
  \/ \E r \in Slots, t \in RawIds \ {IdAbc}, d \in Submissions : RegStart(r, t, d)
  \/ \E r \in Slots : RegValidate(r)

SpecAdmin == InitAdmin /\ [][NextAdmin]_vars

\* a body with a nested object where the name is expected
OddData == [f \in {"name", "email"} |->
              IF f = "name" THEN ObjNoToString ELSE Str(<<"a", "@", "b", ".", "c">>)]

\* a valid body that carries a key no field of the schema has
ExtraData == [f \in {"name", "email", "role"} |->
                IF f = "role" THEN Str(<<"x">>) ELSE GoodData[f]]

\* one registration at a time, over connections that may fail to open or drop
NextRegister ==
  \/ \E t \in RawIds, d \in Submissions \cup {OddData, ExtraData} : RegStart(1, t, d)
  \/ RegValidate(1)
  \/ RegSave(1)
  \/ OpenOk(1)
  \/ OpenFail(1)
  \/ Continue(1)
  \/ \E c \in ConnIds : Disconnect(c)
  \/ Tick

SpecRegister == InitList /\ [][NextRegister]_vars

(***************************************************************************)
(* One call of validateFields on a schema and a submission.                *)
(***************************************************************************)
FieldTypes == {"text", "email", "phone", "number", "textarea", "select"}

\* the definitions of the first field of the schema
FirstFields ==
  {Field("f1", "First", ty, rq, mn, mx, pt, msg,
         IF ty = "select" THEN << <<"x">>, <<"y">> >> ELSE <<>>) :
     ty \in FieldTypes, rq \in BOOLEAN, mn \in {NULL, 0, 2}, mx \in {NULL, 0, 2},
     pt \in {NoPattern, PatDigits, PatInvalid}, msg \in {<<>>, <<"This field is invalid">>}}

FirstValues ==
  {Undefined, [t |-> "null", s |-> <<>>, n |-> 0], Num(0), Num(5), Num(123), Bool(FALSE), Bool(TRUE),
   [t |-> "obj", s |-> <<>>, n |-> 0], ObjNoToString,
   Str(<<>>), Str(<<" ">>), Str(<<"a">>), Str(<<"a", " ">>), Str(<<"x">>), Str(<<"a", "b", "c">>),
   Str(<<"1">>), Str(<<"1", "2">>), Str(<<"1", ".", "5">>), Str(<<"a", "@", "b", ".", "c">>),
   Str(<<"1", "2", "3", "4", "5", "6", "7", "8", "9", "0">>),
   Str(<<"(", "1", "2", "3", ")", " ", "4", "5", "6", "-", "7", "8", "9", "0">>)}

ValSchemas ==
  {<<f>> : f \in FirstFields} \cup {<<f, g>> : f \in FirstFields, 
     g \in {Field("f2", "Second", "email", rq, NULL, NULL, NoPattern, <<>>, <<>>) :
              rq \in BOOLEAN}}
ValSubmissions ==
  {[id \in {"f1", "f2"} |-> IF id = "f1" THEN v ELSE w] : v \in FirstValues, 
     w \in {Undefined, Str(<<"a", "@", "b", ".", "c">>), Str(<<"b", "a", "d">>)}}

InitVal ==
  /\ Started /\ schemas = AllSchemas
  /\ vFields \in ValSchemas
  /\ vData \in ValSubmissions
  /\ vResult = NoResult
  /\ vDone = FALSE

Validate ==
  /\ ~vDone
  /\ vResult' = validateFields(vFields, vData)
  /\ vDone' = TRUE
  /\ UNCHANGED <<tenantConnections, tenantUserModels, conns, schemas, records, clock, reqs,
                 resp, hist, calls, tenants, vFields, vData, form>>

NextVal == Validate

SpecVal == InitVal /\ [][NextVal]_vars

\* one run of the inline validation of the single-database handler
ValidateInline ==
  /\ ~vDone
  /\ vResult' = inlineValidate(vFields, vData)
  /\ vDone' = TRUE
  /\ UNCHANGED <<tenantConnections, tenantUserModels, conns, schemas, records, clock, reqs,
                 resp, hist, calls, tenants, vFields, vData, form>>

NextInline == ValidateInline

SpecInline == InitVal /\ [][NextInline]_vars

\* one call of validateForm; every input of the form holds a string
InitForm ==
  /\ InitVal
  /\ \A id \in DOMAIN vData : vData[id].t \in {"undef", "str"}

CallValidateForm ==
  /\ ~vDone
  /\ vResult' = validateForm(vFields, vData)
  /\ vDone' = TRUE
  /\ UNCHANGED <<tenantConnections, tenantUserModels, conns, schemas, records, clock, reqs,
                 resp, hist, calls, tenants, vFields, vData, form>>

NextForm == CallValidateForm

SpecForm == InitForm /\ [][NextForm]_vars

\* one call of validateFields on a schema as the registry stores it: one
\* field, or two fields under the same id (neither the create nor the update
\* operation of the registry compares the field ids)
InitSameId ==
  /\ Started /\ schemas = AllSchemas
  /\ vFields \in {<<f>> : f \in FirstFields} \cup
                 {<<f, g>> : f \in FirstFields,
                    g \in {Field("f1", "First", "text", FALSE, mn, NULL, pt, <<>>, <<>>) :
                             mn \in {NULL, 2}, pt \in {NoPattern, PatDigits}}}
  /\ vData \in {d \in ValSubmissions : d["f2"] = Undefined}
  /\ vResult = NoResult
  /\ vDone = FALSE

SpecSameId == InitSameId /\ [][NextVal]_vars

(***************************************************************************)
(* The DynamicForm component: the fields prop is the schema the App has    *)
(* fetched for its tenant.  The inputs and the Register button are         *)
(* disabled while submitting is true, and the form is not rendered while   *)
(* submitted is true.                                                      *)
(***************************************************************************)
\* handleChange(fieldId, value), from an input that is enabled
HandleChange(fieldId, value) ==
  /\ ~form.submitted /\ ~form.submitting
  /\ form' = [form EXCEPT
        !.formData = Put(@, fieldId, Str(value)),
        !.errors = IF fieldId \in DOMAIN @ /\ @[fieldId] # <<>> THEN Put(@, fieldId, <<>>) ELSE @]
  /\ UNCHANGED <<tenantConnections, tenantUserModels, conns, schemas, tenants, records, clock,
                 reqs, resp, hist, calls, vFields, vData, vResult, vDone>>

\* handleSubmit, from the Register button when it is enabled: validateForm,
\* then the state updates before the await of axios.post
HandleSubmit ==
  /\ ~form.submitted /\ ~form.submitting
  /\ LET v == validateForm(schemas[IdXyz], form.formData)
     IN form' = IF v.isValid
                THEN [form EXCEPT !.errors = v.errors, !.submitting = TRUE,
                                  !.submitError = "", !.inFlight = TRUE]
                ELSE [form EXCEPT !.errors = v.errors]
  /\ UNCHANGED <<tenantConnections, tenantUserModels, conns, schemas, tenants, records, clock,
                 reqs, resp, hist, calls, vFields, vData, vResult, vDone>>

\* axios.post has resolved: the server has answered 201
SubmitOk ==
  /\ form.inFlight
  /\ validateFields(schemas[IdXyz], form.formData).isValid
  /\ form' = [form EXCEPT !.submitted = TRUE, !.inFlight = FALSE]
  /\ UNCHANGED <<tenantConnections, tenantUserModels, conns, schemas, tenants, records, clock,
                 reqs, resp, hist, calls, vFields, vData, vResult, vDone>>

\* axios.post has rejected: a 400 with the errors of the server, or another
\* failure with or without a message
SubmitFail ==
  /\ form.inFlight
  /\ LET validation == validateFields(schemas[IdXyz], form.formData)
     IN form' = IF ~validation.isValid
                THEN [form EXCEPT !.errors = validation.errors,
                                  !.submitError = "Please fix the errors and try again",
                                  !.submitting = FALSE, !.inFlight = FALSE]
                ELSE [form EXCEPT !.submitError = "Registration failed. Please try again.",
                                  !.submitting = FALSE, !.inFlight = FALSE]
  /\ UNCHANGED <<tenantConnections, tenantUserModels, conns, schemas, tenants, records, clock,
                 reqs, resp, hist, calls, vFields, vData, vResult, vDone>>

\* the button Register Another User of the success screen
RegisterAnother ==
  /\ form.submitted
  /\ form' = [form EXCEPT !.submitted = FALSE, !.formData = EmptyMap, !.errors = EmptyMap]
  /\ UNCHANGED <<tenantConnections, tenantUserModels, conns, schemas, tenants, records, clock,
                 reqs, resp, hist, calls, vFields, vData, vResult, vDone>>

NextSubmit ==
  \/ \E fieldId \in {"name", "email"},
        value \in {<<>>, <<"J">>, <<"J", "o">>, <<"J", "o", " ">>, <<"a", "@", "b", ".", "c">>} :
       HandleChange(fieldId, value)
  \/ HandleSubmit
  \/ SubmitOk
  \/ SubmitFail
  \/ RegisterAnother

SpecSubmit == Init /\ [][NextSubmit]_vars

(***************************************************************************)
(* C1.  validateFields(S, D).isValid is true exactly when every required   *)
(* field of S has a non-empty value in D (not missing, not undefined, not  *)
(* an empty string after trimming) and every present value satisfies its   *)
(* field's minLength, maxLength, pattern and type constraints.             *)
(***************************************************************************)
C1_Empty(v) == v.t \in {"undef", "null"} \/ (v.t = "str" /\ Trim(v.s) = <<>>)

C1_TypeHolds(f, s) ==
  CASE f.type = "email" -> EmailRegexTest(s)
    [] f.type = "phone" -> PhoneRegexTest(CleanPhone(s))
    [] f.type = "number" -> NumberParses(s)
    [] f.type = "select" -> f.options = <<>> \/ s \in Range(f.options)
    [] OTHER -> TRUE

C1_FieldHolds(f, v) ==
  IF C1_Empty(v) THEN ~f.validation.required
  ELSE /\ f.validation.minLength # NULL => Len(ToStr(v)) >= f.validation.minLength
       /\ f.validation.maxLength # NULL => Len(ToStr(v)) <= f.validation.maxLength
       /\ (f.validation.pattern # NoPattern /\ RegexCompiles(f.validation.pattern))
            => RegexTest(f.validation.pattern, ToStr(v))
       /\ C1_TypeHolds(f, ToStr(v))

C1_ValidIffRulesHold ==
  vDone => (vResult.isValid <=>
              \A i \in 1..Len(vFields) : C1_FieldHolds(vFields[i], Lookup(vData, vFields[i].id)))

(***************************************************************************)
(* C2.  While a tenant key is not yet cached, concurrent calls of          *)
(* getTenantConnection open one connection for it: at any time at most one *)
(* open attempt is in flight per normalized key.                           *)
(***************************************************************************)
C2_OpenAttempts(k) == {c \in ConnIds : conns[c].key = k /\ conns[c].state = "connecting"}

C2_OneOpenInFlightPerKey == \A k \in Keys : Cardinality(C2_OpenAttempts(k)) <= 1

(***************************************************************************)
(* C4.  A call for raw tenant id t returns the handle that the cache holds *)
(* under the normalized form of t (lowercase, then only [a-z0-9] kept),    *)
(* and that handle's database is tenant_<normalized>: "X-yz" and "xyz"     *)
(* share the cache entry and the database tenant_xyz.                      *)
(***************************************************************************)
C4_Normalized(t) ==
  CASE t = IdXyz -> <<"x", "y", "z">>
    [] t = IdXyzAlias -> <<"x", "y", "z">>
    [] t = IdAbc -> <<"a", "b", "c">>

C4_Returned(r) ==
  /\ reqs[r].pc # "gotConn" /\ reqs'[r].pc = "gotConn"
       => /\ tenantConnections'[C4_Normalized(reqs'[r].t)] = reqs'[r].c
          /\ conns'[reqs'[r].c].db = <<"tenant_">> \o C4_Normalized(reqs'[r].t)
  /\ reqs[r].pc # "gotModel" /\ reqs'[r].pc = "gotModel"
       => /\ tenantUserModels'[C4_Normalized(reqs'[r].t)] = reqs'[r].c
          /\ conns'[reqs'[r].c].db = <<"tenant_">> \o C4_Normalized(reqs'[r].t)

C4_SameNormalizedSameHandle == [][\A r \in Slots : C4_Returned(r)]_vars

\* a call for "X-yz" got the handle that a call for "xyz" had opened
C4_AliasGotHandleOfXyz ==
  \E r \in Slots : /\ reqs[r].pc = "gotConn" /\ reqs[r].t = IdXyzAlias
                   /\ conns[reqs[r].c].raw = IdXyz

(***************************************************************************)
(* C9 as claimed.  When an open fails, the call surfaces an error and no   *)
(* failed or non-live handle is left in the connection cache or the model  *)
(* cache for that key.                                                     *)
(***************************************************************************)
C9_OpenFails(r) ==
  /\ reqs[r].pc = "awaitOpen"
  /\ conns[reqs[r].c].state = "connecting" /\ conns'[reqs[r].c].state = "failed"

C9_NoNonLiveHandleLeft ==
  [][\A r \in Slots : C9_OpenFails(r) =>
        LET k == conns[reqs[r].c].key
        IN /\ resp'.status = "threw"
           /\ tenantConnections'[k] = 0 \/ conns'[tenantConnections'[k]].state = "open"
           /\ tenantUserModels'[k] = 0 \/ conns'[tenantUserModels'[k]].state = "open"]_vars

(***************************************************************************)
(* C9 as amended.  When an open fails, the call surfaces an error, the     *)
(* handle of the failed attempt is never in the connection cache nor       *)
(* behind a cached model, and a later call that finds no live handle       *)
(* cached for the key makes a fresh open attempt.                          *)
(***************************************************************************)
C9_CallsGetTenantConnection(r) ==
  /\ reqs[r].pc = "idle"
  /\ \/ reqs'[r].kind = "conn"
     \/ reqs'[r].kind = "model" /\ reqs'[r].pc # "gotModel"

C9_FreshAttempt(r) ==
  LET cached == tenantConnections[Normalize(reqs'[r].t)]
  IN (cached = 0 \/ conns[cached].state # "open")
       => /\ reqs'[r].pc = "awaitOpen"
          /\ conns[reqs'[r].c].state = "unused"
          /\ conns'[reqs'[r].c].state = "connecting"

C9_FailedHandleNotCached ==
  /\ [](\A c \in ConnIds : conns[c].state = "failed" =>
          \A k \in Keys : tenantConnections[k] # c /\ tenantUserModels[k] # c)
  /\ [][\A r \in Slots :
          /\ C9_OpenFails(r) => resp'.status = "threw" /\ resp'.c = reqs[r].c
          /\ C9_CallsGetTenantConnection(r) => C9_FreshAttempt(r)]_vars

\* after a failed open for a key, a later call has opened and cached a
\* fresh connection for it
C9_RetrySucceeded ==
  \E c1, c2 \in ConnIds :
     /\ c1 < c2 /\ conns[c1].state = "failed" /\ conns[c2].state = "open"
     /\ conns[c1].key = conns[c2].key
     /\ tenantConnections[conns[c2].key] = c2

(***************************************************************************)
(* C10.  closeAllTenantConnections calls close() on every handle that is   *)
(* in the cache when it is called; it returns normally whatever the        *)
(* closes did, every handle it found has had its close attempted, and the  *)
(* cache is empty when it returns.                                         *)
(***************************************************************************)
C10_Called(r) == reqs[r].pc = "idle" /\ reqs'[r].kind = "closeAll"
C10_Over(r) == reqs[r].kind = "closeAll" /\ reqs'[r].pc = "idle"

C10_CloseAllClosesEveryHandle ==
  [][\A r \in Slots :
       /\ C10_Called(r) =>
            \A k \in Keys : tenantConnections[k] # 0 =>
               /\ tenantConnections[k] \in reqs'[r].snap
               /\ conns'[tenantConnections[k]].state = "closing"
       /\ C10_Over(r) =>
            /\ resp'.status = "returned"
            /\ \A k \in Keys : tenantConnections'[k] = 0
            /\ reqs[r].pend = {}
            /\ \A c \in resp'.snap : conns'[c].state \in {"closing", "closed", "closeFailed"}]_vars

\* a close-all returned although one close failed, and another handle of
\* the same call was closed
C10_ReturnedDespiteFailure ==
  /\ resp.kind = "closeAll" /\ resp.status = "returned"
  /\ resp.failed # {}
  /\ \E c \in resp.snap \ resp.failed : conns[c].state = "closed"

(***************************************************************************)
(* C3.  Tenants whose normalized ids differ have different databases, and  *)
(* a list or get-by-id for one tenant returns only documents that were     *)
(* registered through that tenant and lie in its database.                 *)
(***************************************************************************)
C3_Opened == {c \in ConnIds : conns[c].state # "unused"}

C3_OwnDocument(t, i) ==
  /\ i \in 1..Len(records)
  /\ Normalize(records[i].tenantId) = Normalize(t)
  /\ records[i].db = <<"tenant_">> \o Normalize(t)

C3_Answered(q) ==
  /\ q.kind = "list" => \A i \in 1..Len(q.users) : C3_OwnDocument(q.t, q.users[i])
  /\ q.kind = "getById" /\ q.status = "200" => C3_OwnDocument(q.t, q.uid)

C3_TenantsIsolated ==
  /\ \A c, d \in C3_Opened :
        Normalize(conns[c].raw) # Normalize(conns[d].raw) => conns[c].db # conns[d].db
  /\ \A i, j \in 1..Len(records) :
        Normalize(records[i].tenantId) # Normalize(records[j].tenantId)
          => records[i].db # records[j].db
  /\ C3_Answered(resp)
  /\ \A r \in Slots : C3_Answered(reqs[r])

\* a list for one tenant has answered with its documents while another
\* tenant, of a different normalized id, has documents too
C3_ListedBesideOtherTenant ==
  /\ resp.kind = "list" /\ resp.status = "200" /\ resp.users # <<>>
  /\ \E i \in 1..Len(records) : Normalize(records[i].tenantId) # Normalize(resp.t)

(***************************************************************************)
(* C5.  Get-by-id for tenant t and record id u answers 200 with the record *)
(* when a record with that id exists in t's database, and 404 otherwise.   *)
(***************************************************************************)
C5_Exists(t, u) ==
  /\ u \in 1..Len(records)
  /\ records[u].db = <<"tenant_">> \o Normalize(t)

C5_FoundOrNotFound ==
  resp.kind = "getById" =>
    resp.status = (IF C5_Exists(resp.t, resp.uid) THEN "200" ELSE "404")

(***************************************************************************)
(* C8 as claimed.  After a registration for tenant t has answered 201 with *)
(* no other registration for t overlapping it, a list of t with page 1 and *)
(* limit 10, issued before any further write for t, has the record just    *)
(* created as its first element.                                           *)
(***************************************************************************)
C8_ListAfterRegister ==
  /\ resp.kind = "list" /\ resp.status = "200"
  /\ resp.expect # 0
  /\ hist[resp.t].quiet /\ hist[resp.t].last = resp.expect
  /\ ParsePage(resp.page) = JsInt(1) /\ ParseLimit(resp.limit) = JsInt(10)

C8_JustCreatedFirst ==
  C8_ListAfterRegister => resp.users # <<>> /\ resp.users[1] = resp.expect

(***************************************************************************)
(* C8 as amended.  In that list the first element has the greatest         *)
(* createdAt of t's records, and it is the record just created whenever    *)
(* the createdAt of that record is greater than that of every other record *)
(* of t.                                                                   *)
(***************************************************************************)
C8_Others(t, u) == {i \in 1..Len(records) : records[i].tenantId = t /\ i # u}

C8_NewestFirst ==
  C8_ListAfterRegister =>
    /\ resp.users # <<>>
    /\ \A i \in C8_Others(resp.t, resp.users[1]) :
          records[i].createdAt <= records[resp.users[1]].createdAt
    /\ (\A i \in C8_Others(resp.t, resp.expect) :
          records[i].createdAt < records[resp.expect].createdAt)
         => resp.users[1] = resp.expect

\* the list has answered with the record just created ahead of an older one
C8_JustCreatedAheadOfOlder ==
  /\ C8_ListAfterRegister
  /\ Len(resp.users) >= 2
  /\ resp.users[1] = resp.expect
  /\ records[resp.users[2]].createdAt < records[resp.expect].createdAt

(***************************************************************************)
(* C6.  With n records of tenant t, a list with page p >= 1 and limit      *)
(* L >= 1 answers 200 with the records of ranks (p-1)L+1 .. min(pL, n) in  *)
(* the order of createdAt descending (none when (p-1)L >= n), with         *)
(* totalUsers = n and totalPages = ceil(n / L).                            *)
(***************************************************************************)
C6_Given(q) == ~q.abs /\ q.s \in {<<"1">>, <<"2">>}
C6_Num(q) == IF q.s = <<"1">> THEN 1 ELSE 2

C6_Records(t) == {i \in 1..Len(records) : records[i].tenantId = t}
C6_Count(n, p, L) == IF (p - 1) * L >= n THEN 0 ELSE (IF p * L < n THEN p * L ELSE n) - (p - 1) * L
C6_Ceil(n, L) == CHOOSE m \in 0..n : m * L >= n /\ (m = 0 \/ (m - 1) * L < n)

\* users is the segment of ranks (p-1)L+1.. of some ranking of the records
\* by createdAt descending
C6_Segment(users, all, p, L) ==
  LET n == Cardinality(all)
      listed == {users[i] : i \in 1..Len(users)}
  IN /\ Len(users) = C6_Count(n, p, L)
     /\ listed \subseteq all /\ Cardinality(listed) = Len(users)
     /\ \A i, j \in 1..Len(users) :
           i < j => records[users[i]].createdAt >= records[users[j]].createdAt
     /\ \E before \in SUBSET (all \ listed) :
           /\ Cardinality(before) = (IF (p - 1) * L < n THEN (p - 1) * L ELSE n)
           /\ \A b \in before, u \in listed : records[b].createdAt >= records[u].createdAt
           /\ \A a \in (all \ listed) \ before, u \in listed :
                 records[a].createdAt <= records[u].createdAt
           /\ \A b \in before, a \in (all \ listed) \ before :
                 records[b].createdAt >= records[a].createdAt

C6_PageOfRanking ==
  resp.kind = "list" /\ C6_Given(resp.page) /\ C6_Given(resp.limit) =>
    LET p == C6_Num(resp.page)
        L == C6_Num(resp.limit)
        all == C6_Records(resp.t)
    IN /\ resp.status = "200"
       /\ C6_Segment(resp.users, all, p, L)
       /\ Pagination(resp).totalUsers = Cardinality(all)
       /\ Pagination(resp).totalPages = JsInt(C6_Ceil(Cardinality(all), L))

\* page 2 of limit 1 has answered with the older of two records of
\* different createdAt
C6_SecondPageListed ==
  /\ resp.kind = "list" /\ resp.status = "200"
  /\ resp.page = Q(<<"2">>) /\ resp.limit = Q(<<"1">>)
  /\ Len(resp.users) = 1
  /\ \E i \in C6_Records(resp.t) : records[i].createdAt > records[resp.users[1]].createdAt

(***************************************************************************)
(* C7.  A list whose page or limit is absent or invalid answers 200 as the *)
(* list with page 1 in place of the absent or invalid page, and limit 10   *)
(* in place of the absent or invalid limit.                                *)
(***************************************************************************)
C7_Page(q) == IF C6_Given(q) THEN C6_Num(q) ELSE 1
C7_Limit(q) == IF C6_Given(q) THEN C6_Num(q) ELSE 10

C7_DefaultsWhenAbsentOrInvalid ==
  resp.kind = "list" /\ (~C6_Given(resp.page) \/ ~C6_Given(resp.limit)) =>
    LET p == C7_Page(resp.page)
        L == C7_Limit(resp.limit)
        all == C6_Records(resp.t)
    IN /\ resp.status = "200"
       /\ C6_Segment(resp.users, all, p, L)
       /\ Pagination(resp).currentPage = JsInt(p)
       /\ Pagination(resp).limit = JsInt(L)
       /\ Pagination(resp).totalPages = JsInt(C6_Ceil(Cardinality(all), L))

(***************************************************************************)
(* C11.  A pattern that does not compile counts as no pattern: validating  *)
(* a submission against a schema gives what validating it against the same *)
(* schema without its uncompilable patterns gives, and in particular does  *)
(* not end in a server error because of such a pattern.                    *)
(***************************************************************************)
C11_Compilable(fields) ==
  [i \in 1..Len(fields) |->
     IF fields[i].validation.pattern # NoPattern /\ ~RegexCompiles(fields[i].validation.pattern)
     THEN [fields[i] EXCEPT !.validation.pattern = NoPattern]
     ELSE fields[i]]

C11_MalformedPatternIgnored ==
  vDone => vResult = inlineValidate(C11_Compilable(vFields), vData)

(***************************************************************************)
(* C12.  validateFields returns a result {isValid, errors,                 *)
(* validatedFields} for every schema and every submitted value, whatever   *)
(* its shape; it never throws.                                             *)
(***************************************************************************)
C12_NeverThrows ==
  vDone => /\ ~vResult.threw
           /\ vResult.isValid \in BOOLEAN
           /\ DOMAIN vResult.errors \subseteq {vFields[i].id : i \in 1..Len(vFields)}
           /\ DOMAIN vResult.validatedFields \subseteq {vFields[i].id : i \in 1..Len(vFields)}

(***************************************************************************)
(* C13.  A create-schema request that finds a schema stored for its        *)
(* tenantId is answered with the "already exists" refusal, which is not    *)
(* the 404 of NotFound, and the stored schemas stay as they are.           *)
(***************************************************************************)
C13_FindsExisting(r) ==
  /\ reqs[r].kind = "createSchema" /\ reqs[r].pc = "findExisting"
  /\ reqs'[r].pc # "findExisting"
  /\ schemas[reqs[r].t] # NoSchema

C13_ConflictOnExistingSchema ==
  [][\A r \in Slots : C13_FindsExisting(r) =>
        /\ resp'.kind = "createSchema" /\ resp'.t = reqs[r].t
        /\ resp'.status = "400" /\ resp'.message = "Schema already exists"
        /\ resp'.status # "404"
        /\ schemas' = schemas]_vars

\* a create-schema was refused and the stored fields are not the submitted ones
C13_CreateRefused ==
  /\ resp.kind = "createSchema" /\ resp.message = "Schema already exists"
  /\ schemas[resp.t] # NoSchema /\ schemas[resp.t] # resp.fields

(***************************************************************************)
(* C14.  A create-tenant request whose tenantId already exists, the store  *)
(* being available, is answered as a conflict, not with the answer given   *)
(* to storage failures, and no Tenant record is added.                     *)
(***************************************************************************)
C14_Duplicate ==
  /\ calls' = calls + 1
  /\ resp'.kind = "createTenant" /\ resp'.status # "400"
  /\ resp'.error # "server selection timed out"
  /\ resp'.t \in TenantIds

C14_DuplicateTenantIsConflict ==
  [][C14_Duplicate => /\ resp'.status \notin {"201", "500"}
                      /\ tenants' = tenants]_vars

(***************************************************************************)
(* C15.  Every stored schema has pairwise distinct field ids.              *)
(***************************************************************************)
C15_DistinctFieldIds ==
  \A t \in RawIds : \A i, j \in 1..Len(schemas[t]) :
     i # j => schemas[t][i].id # schemas[t][j].id

(***************************************************************************)
(* C16.  An update-schema request with a fields array replaces the stored  *)
(* fields of an existing schema by the submitted ones and leaves the other *)
(* schemas alone; without a stored schema it answers 404 and stores        *)
(* nothing.  Stored fields change through create and update only, and a    *)
(* schema fetch or a registration reads the fields stored at that time.    *)
(***************************************************************************)
C16_Update ==
  calls' = calls + 1 /\ resp'.kind = "updateSchema" /\ resp'.status # "400"

C16_Fetch == calls' = calls + 1 /\ resp'.kind = "fetchSchema"

C16_SchemaRead(r) ==
  reqs[r].kind = "register" /\ reqs[r].pc = "findSchema" /\ reqs'[r].pc # "findSchema"

C16_RegistrationUses(r, fields) ==
  LET v == validateFields(fields, reqs[r].data)
  IN IF fields = NoSchema THEN resp'.status = "404"
     ELSE IF v.threw THEN resp'.status = "500"
     ELSE IF ~v.isValid THEN resp'.status = "400" /\ resp'.errors = v.errors
     ELSE reqs'[r].pc # "idle" /\ reqs'[r].validated = v.validatedFields

C17_Ends(r) == reqs[r].kind = "register" /\ reqs'[r].pc = "idle"

C17_Outcome(r) ==
  LET q == reqs[r]
      status == resp'.status
  IN /\ status \in {"404", "400", "201", "500"}
     /\ status = "404" <=> schemas[q.t] = NoSchema
     /\ status = "404" => q.c = 0 /\ q.pc = "findSchema" /\ records' = records
     /\ status = "400" => /\ resp'.errors # EmptyMap /\ ~validateFields(schemas[q.t], q.data).isValid
                          /\ records' = records
     /\ status = "201" => /\ Len(records') = Len(records) + 1
                          /\ SubSeq(records', 1, Len(records)) = records
                          /\ records'[Len(records')].fields = q.validated
                          /\ records'[Len(records')].tenantId = q.t
     /\ status = "500" => /\ q.c # 0 /\ conns'[q.c].state # "open"
                          /\ records' = records

C17_RegistrationOutcomes == [][\A r \in Slots : C17_Ends(r) => C17_Outcome(r)]_vars

(***************************************************************************)
(* C18.  On string-valued submissions the form's validateForm mirrors      *)
(* validateFields: a field the form rejects is rejected by validateFields, *)
(* a form the client rejects is rejected by the server, and the message    *)
(* the form reports is the message of a server rule that fails on that     *)
(* value.                                                                  *)
(***************************************************************************)
C18_If(fails, message) == IF fails THEN {message} ELSE {}

C18_ServerMessages(f, value) ==
  LET sv == ToStr(value)
      v == f.validation
  IN IF IsBlank(value)
     THEN C18_If(v.required, OrElse(f.errorMessage, <<f.label, " is required">>))
     ELSE C18_If(Truthy(v.minLength) /\ Len(sv) < v.minLength,
                 <<f.label, " must be at least ", ToString(v.minLength), " characters">>)
          \cup C18_If(Truthy(v.maxLength) /\ Len(sv) > v.maxLength,
                 <<f.label, " must not exceed ", ToString(v.maxLength), " characters">>)
          \cup C18_If(v.pattern # NoPattern /\ RegexCompiles(v.pattern) /\ ~RegexTest(v.pattern, sv),
                 OrElse(f.errorMessage, <<f.label, " format is invalid">>))
          \cup C18_If(validateByType(f, sv) # <<>>, validateByType(f, sv))

C19_Retyped(fields, i, ty) == [fields EXCEPT ![i].type = ty]

C19_PlainTypes == FieldTypes \ {"email", "phone"}

C20_Completed(q) ==
  q.kind = "conn" /\ q.pc = "done" =>
    \/ q.status = "returned" /\ q.c # 0
         /\ conns[q.c].state \notin {"unused", "connecting", "failed"}
    \/ q.status = "threw" /\ q.c # 0 /\ conns[q.c].state = "failed"

C20_EveryCallCompletes ==
  /\ [] C20_Completed(resp)
  /\ \A r \in Slots : (reqs[r].kind = "conn") ~> (reqs[r].pc = "idle")

\* a call has thrown after its pending open was ended
C20_CallThrewAfterTimeout ==
  /\ resp.kind = "conn" /\ resp.pc = "done" /\ resp.status = "threw"
  /\ conns[resp.c].state = "failed"


(***************************************************************************)
(* C21.  validateFields applies the rules of a field in the order          *)
(* required, min length, max length, pattern, type-specific check and      *)
(* stops at the first rule that fails: errors holds one message per field  *)
(* id, the message of the earliest failing rule of the field, the pattern  *)
(* message and not the type message when both rules fail.  The fields are  *)
(* processed in schema order: of two fields under one id, the later one    *)
(* that fails has its message in errors.                                   *)
(***************************************************************************)
\* the messages of the rules the value fails, in the order of the rules
C21_Failures(f, value) ==
  LET sv == ToStr(value)
      v == f.validation
      rules ==
        IF IsBlank(value)
        THEN << [fails |-> v.required,
                 msg |-> OrElse(f.errorMessage, <<f.label, " is required">>)] >>
        ELSE << [fails |-> Truthy(v.minLength) /\ Len(sv) < v.minLength,
                 msg |-> <<f.label, " must be at least ", ToString(v.minLength), " characters">>],
                [fails |-> Truthy(v.maxLength) /\ Len(sv) > v.maxLength,
                 msg |-> <<f.label, " must not exceed ", ToString(v.maxLength), " characters">>],
                [fails |-> v.pattern # NoPattern /\ RegexCompiles(v.pattern)
                             /\ ~RegexTest(v.pattern, sv),
                 msg |-> OrElse(f.errorMessage, <<f.label, " format is invalid">>)],
                [fails |-> validateByType(f, sv) # <<>>, msg |-> validateByType(f, sv)] >>
  IN SelectSeq(rules, LAMBDA rule : rule.fails)

C21_LastOfItsId(i) == \A j \in (i + 1)..Len(vFields) : vFields[j].id # vFields[i].id

C21_EarliestFailingRuleWins ==
  vDone /\ ~vResult.threw =>
    /\ \A i \in 1..Len(vFields) :
         LET failures == C21_Failures(vFields[i], Lookup(vData, vFields[i].id))
         IN C21_LastOfItsId(i) /\ failures # <<>> =>
              /\ vFields[i].id \in DOMAIN vResult.errors
              /\ vResult.errors[vFields[i].id] = failures[1].msg
    /\ \A id \in DOMAIN vResult.errors :
         \E i \in 1..Len(vFields) :
           LET failures == C21_Failures(vFields[i], Lookup(vData, id))
           IN vFields[i].id = id /\ failures # <<>> /\ vResult.errors[id] = failures[1].msg

\* a value has failed the pattern and the type check of its field, and errors
\* holds the pattern message
C21_PatternMessageBeforeTypeMessage ==
  /\ vDone /\ ~vResult.threw /\ Len(vFields) = 1
  /\ vFields[1].type = "email" /\ vFields[1].validation.pattern = PatDigits
  /\ vFields[1].errorMessage = <<>>
  /\ Lookup(vData, "f1") = Str(<<"a", "b", "c">>)
  /\ "f1" \in DOMAIN vResult.errors
  /\ vResult.errors["f1"] = <<"First", " format is invalid">>

(***************************************************************************)
(* C22.  validatedFields holds a field id only if the value of the field   *)
(* was present and passed all its checks, and holds the submitted value    *)
(* unchanged; an optional field with a missing or empty value is in        *)
(* neither errors nor validatedFields; no field id is in both errors and   *)
(* validatedFields.                                                        *)
(***************************************************************************)
C22_ValidatedFieldsPassed ==
  vDone /\ ~vResult.threw =>
    /\ \A id \in DOMAIN vResult.validatedFields :
         /\ vResult.validatedFields[id] = Lookup(vData, id)
         /\ ~IsBlank(Lookup(vData, id))
         /\ \E i \in 1..Len(vFields) :
              vFields[i].id = id /\ C21_Failures(vFields[i], Lookup(vData, id)) = <<>>
    /\ \A i \in 1..Len(vFields) :
         ~vFields[i].validation.required /\ IsBlank(Lookup(vData, vFields[i].id))
           /\ (\A j \in 1..Len(vFields) : vFields[j].id = vFields[i].id => j = i)
           => vFields[i].id \notin (DOMAIN vResult.errors) \cup (DOMAIN vResult.validatedFields)
    /\ (DOMAIN vResult.errors) \cap (DOMAIN vResult.validatedFields) = {}

(***************************************************************************)
(* C23.  The required check reports an error for a field exactly when      *)
(* validation.required is true and the submitted value is missing,         *)
(* undefined or an empty string after trimming; any other present value,   *)
(* the number 0 and the boolean false among them, is not treated as        *)
(* missing.  The error is the errorMessage of the field when it has one,   *)
(* otherwise the default message with the label and the word required.     *)
(***************************************************************************)
\* missing, undefined (null counted with them), or empty after trimming
C23_Missing(value) ==
  \/ value.t \in {"undef", "null"}
  \/ value.t = "str" /\ Trim(value.s) = <<>>

C23_RequiredCheck ==
  vDone /\ ~vResult.threw =>
    \A i \in 1..Len(vFields) :
      LET f == vFields[i]
          value == Lookup(vData, f.id)
          required == <<f.label, " is required">>
      IN /\ f.validation.required /\ C23_Missing(value) =>
              /\ f.id \in DOMAIN vResult.errors
              /\ vResult.errors[f.id] = OrElse(f.errorMessage, required)
         /\ f.id \in DOMAIN vResult.errors /\ vResult.errors[f.id] = required =>
              f.validation.required /\ C23_Missing(value)

(***************************************************************************)
(* C24.  The max-length check mirrors the min-length check: for a field    *)
(* whose validation.maxLength is set to any integer from 0 up, 0 included, *)
(* a present value whose string form, not trimmed, is longer than          *)
(* maxLength gets the default error message that cites the label and       *)
(* maxLength (unless the min-length rule, which comes first, has failed).  *)
(***************************************************************************)
C24_MaxLengthCheck ==
  vDone /\ ~vResult.threw =>
    \A i \in 1..Len(vFields) :
      LET f == vFields[i]
          value == Lookup(vData, f.id)
          v == f.validation
      IN /\ v.maxLength # NULL /\ ~C23_Missing(value) /\ ~Falsy(value)
         /\ Len(ToStr(value)) > v.maxLength
         /\ ~(v.minLength # NULL /\ Len(ToStr(value)) < v.minLength)
         => /\ f.id \in DOMAIN vResult.errors
            /\ vResult.errors[f.id] =
                 <<f.label, " must not exceed ", ToString(v.maxLength), " characters">>


(***************************************************************************)
(* C25.  At every point every tenant connection that getTenantConnection   *)
(* has opened and that has not been closed is the one the cache holds for  *)
(* its normalized key: there is at most one open connection per key, and   *)
(* once closeAllTenantConnections has returned no tenant connection is     *)
(* open.                                                                   *)
(***************************************************************************)
C25_OpenConnectionsAreCached ==
  /\ \A c \in ConnIds : conns[c].state = "open" => tenantConnections[conns[c].key] = c
  /\ \A c, d \in ConnIds :
       conns[c].state = "open" /\ conns[d].state = "open" /\ conns[c].key = conns[d].key
         => c = d
  /\ resp.kind = "closeAll" /\ resp.pc = "done" /\ resp.status = "returned"
       => \A c \in ConnIds : conns[c].state # "open"

(***************************************************************************)
(* C26.  getUserModel(t) never answers with a model bound to a connection  *)
(* that is closed or not live: once closeTenantConnection(t) has closed    *)
(* the connection of t, or the connection has stopped being connected, the *)
(* next call of getUserModel(t) takes a model of a live connection, the    *)
(* one the connection cache holds.                                         *)
(***************************************************************************)
\* slot r takes a call of getUserModel in this step
C26_Called(r) == reqs[r].pc = "idle" /\ reqs'[r].kind = "model"

C26_NextModelIsLive ==
  [][\A r \in Slots :
       C26_Called(r) /\ reqs'[r].pc = "gotModel" =>
         /\ Live(reqs'[r].c)
         /\ tenantConnections[Normalize(reqs'[r].t)] = reqs'[r].c]_vars

(***************************************************************************)
(* C27.  Two raw tenant ids with the same normalized key agree on what     *)
(* their shared namespace holds: a record registered through one of them   *)
(* is returned by the list operation issued through the other.             *)
(***************************************************************************)
\* the list answers with its first page, which has room for every record
C27_WholeList ==
  /\ resp.kind = "list" /\ resp.pc = "done" /\ resp.status = "200"
  /\ resp.page = QAbsent /\ resp.limit = QAbsent

C27_AliasesShareRecords ==
  C27_WholeList =>
    \A i \in 1..Len(records) :
      Normalize(records[i].tenantId) = Normalize(resp.t) => i \in Range(resp.users)

(***************************************************************************)
(* C29.  Under any interleaving of concurrent create-schema requests for   *)
(* one tenantId there is at most one schema of the tenant afterwards, one  *)
(* request gets the 201 answer, and every other request gets the conflict  *)
(* answer, not a generic server error.                                     *)
(***************************************************************************)
C29_RacingCreatesGetConflict ==
  resp.kind = "createSchema" /\ resp.pc = "done" => resp.status \in {"201", "400"}


(***************************************************************************)
(* C28.  Every record a registration persists has a fields mapping equal   *)
(* to the validatedFields of its request: each key is a field id of the    *)
(* schema fetched for the request, each value is the submitted value and   *)
(* passed the checks of its field, and a submitted key that is no field id *)
(* of the schema is never stored.                                          *)
(***************************************************************************)
C28_FieldIds(schema) == {schema[i].id : i \in 1..Len(schema)}

C28_Stored(q, rec) ==
  LET schema == schemas[q.t]
  IN /\ rec.fields = validateFields(schema, q.data).validatedFields
     /\ DOMAIN rec.fields \subseteq C28_FieldIds(schema) \cap DOMAIN q.data
     /\ \A i \in 1..Len(schema) :
          schema[i].id \in DOMAIN rec.fields =>
            /\ rec.fields[schema[i].id] = q.data[schema[i].id]
            /\ C21_Failures(schema[i], rec.fields[schema[i].id]) = <<>>
     /\ \A key \in DOMAIN q.data \ C28_FieldIds(schema) : key \notin DOMAIN rec.fields

C28_RecordHoldsValidatedFields ==
  [][\A r \in Slots :
       reqs[r].kind = "register" /\ Len(records') = Len(records) + 1 /\ reqs'[r].pc = "idle"
         => C28_Stored(reqs[r], records'[Len(records')])]_vars

\* a registration that carried the key role has stored its record without it
C28_ExtraKeyNotStored ==
  /\ resp.kind = "register" /\ resp.pc = "done" /\ resp.status = "201"
  /\ "role" \in DOMAIN resp.data
  /\ DOMAIN records[resp.uid].fields = {"name", "email"}


(***************************************************************************)
(* C30.  In the registration form, whenever the form is displayed and no   *)
(* submit request is in flight, submitting is false: the inputs and the    *)
(* Register button are enabled, after a successful submission followed by  *)
(* Register Another User as well.                                          *)
(***************************************************************************)
C30_FormEnabledWhenIdle ==
  ~form.submitted /\ ~form.inFlight => ~form.submitting

====
